---- MODULE Spec2Model ----
(***************************************************************************)
(* Model of the key pool of vercel-ai-proxy: the KeyManager of             *)
(* src/src/key-manager.ts (the credential store and the key selector) and  *)
(* the chat-completions handler of src/src/config.ts that drives it.       *)
(*                                                                         *)
(* Time is counted in ticks of one RELOAD_INTERVAL (5 minutes); the clock  *)
(* starts past the first interval, as Date.now() does. The configured      *)
(* cooldown (config.cooldownHours hours) is scaled to CooldownTicks ticks  *)
(* so that a cooldown can start and expire within the bounded clock.       *)
(*                                                                         *)
(* A line of a key file is a sequence of tokens: " " stands for a run of   *)
(* white space, "#" for the comment mark, any other token for a run of     *)
(* key characters. A key is a trimmed line, so a key is a token sequence.  *)
(*                                                                         *)
(* this.keys holds references to KeyStatus objects, and a reload may put   *)
(* one object into several slots. keys[i] is the record slot i shows and   *)
(* alias[i] the first slot that holds the same object: a write to one slot *)
(* is a write to every slot with the same alias.                           *)
(***************************************************************************)
EXTENDS Integers, Sequences, FiniteSets, TLC

VARIABLES keys, alias, currentIndex, lastLoadTime, now, reqs, last, rot, oblig,
          disk, obs, call

vars ==
  <<keys, alias, currentIndex, lastLoadTime, now, reqs, last, rot, oblig,
    disk, obs, call>>

(* What SpecLoad and SpecObs record: the file system the latest load read,
   and what each request met and wrote; and the latest call of a function of
   src/src/ai-provider.ts with its result *)
aux == <<disk, obs, call>>

----------------------------------------------------------------------------
(* Bounds *)

MaxTime == 4
MaxFail == 2
MaxLines == 2
ReqMaxTime == 3
MaxParts == 2
MaxEvents == 3
MaxIdLen == 3
MaxChecked == 2

(* Program constants *)

RELOAD_INTERVAL == 1
CooldownTicks == 2
NoDate == 0

StartTime == RELOAD_INTERVAL + 1

None == <<>>

SP == " "
HASH == "#"
Secrets == {<<"k1">>, <<"k2">>}

Min(S) == CHOOSE x \in S : \A y \in S : x <= y
Max(S) == CHOOSE x \in S : \A y \in S : x >= y

----------------------------------------------------------------------------
(* Key files *)

keyFilesActiveFirst == <<"active_keys.txt", "keys_high.txt", "keysFile">>

keyFiles == <<"keys_high.txt", "active_keys.txt", "keysFile">>

RECURSIVE TrimStart(_)
TrimStart(line) ==
  IF line # <<>> /\ Head(line) = SP THEN TrimStart(Tail(line)) ELSE line

RECURSIVE TrimEnd(_)
TrimEnd(line) ==
  IF line # <<>> /\ line[Len(line)] = SP
  THEN TrimEnd(SubSeq(line, 1, Len(line) - 1))
  ELSE line

Trim(line) == TrimEnd(TrimStart(line))

IsKeyLine(line) == line # <<>> /\ Head(line) # HASH

FilterLines(lines) ==
  SelectSeq([i \in 1..Len(lines) |-> Trim(lines[i])], IsKeyLine)

AbsentFile == [exists |-> FALSE, readable |-> FALSE, lines |-> <<>>]
UnreadableFile == [exists |-> TRUE, readable |-> FALSE, lines |-> <<>>]
TextFile(lines) == [exists |-> TRUE, readable |-> TRUE, lines |-> lines]

RECURSIVE ScanFiles(_, _)
ScanFiles(fs, i) ==
  IF i > Len(keyFiles)
  THEN [threw |-> FALSE, loadedFile |-> 0, keyLines |-> <<>>]
  ELSE LET f == fs[keyFiles[i]] IN
       IF ~f.exists THEN ScanFiles(fs, i + 1)
       ELSE IF ~f.readable
       THEN [threw |-> TRUE, loadedFile |-> 0, keyLines |-> <<>>]
       ELSE LET lines == FilterLines(f.lines) IN
            IF Len(lines) > 0
            THEN [threw |-> FALSE, loadedFile |-> i, keyLines |-> lines]
            ELSE ScanFiles(fs, i + 1)

(* The file systems a load may find. *)

KeyLists == UNION {[1..n -> Secrets] : n \in 1..MaxLines}

CommentLine == <<HASH, "k1">>
BlankLine == <<SP>>
Padded(key) == <<SP>> \o key \o <<SP>>
Decorated(ls) ==
  <<CommentLine>> \o [i \in 1..Len(ls) |-> Padded(ls[i])] \o <<BlankLine>>
OtherLines == << <<"k2">>, <<"k1">> >>

MkFs(shape, ls) ==
  CASE shape = "high" ->
         [f \in {"keys_high.txt", "active_keys.txt", "keysFile"} |->
            IF f = "keys_high.txt" THEN TextFile(Decorated(ls))
            ELSE TextFile(OtherLines)]
    [] shape = "active" ->
         [f \in {"keys_high.txt", "active_keys.txt", "keysFile"} |->
            IF f = "keys_high.txt" THEN TextFile(<<CommentLine, BlankLine>>)
            ELSE IF f = "active_keys.txt" THEN TextFile(Decorated(ls))
            ELSE TextFile(OtherLines)]
    [] shape = "keysFile" ->
         [f \in {"keys_high.txt", "active_keys.txt", "keysFile"} |->
            IF f = "keysFile" THEN TextFile(Decorated(ls)) ELSE AbsentFile]
    [] OTHER ->
         [f \in {"keys_high.txt", "active_keys.txt", "keysFile"} |->
            IF f = "keys_high.txt" THEN UnreadableFile
            ELSE TextFile(OtherLines)]

FileSystems ==
  {MkFs("high", ls) : ls \in KeyLists}
    \cup {MkFs("active", ls) : ls \in {l \in KeyLists : Len(l) = 1}}
    \cup {MkFs("keysFile", <<>>), MkFs("throws", <<>>)}

----------------------------------------------------------------------------
(* KeyStatus records and the store *)

NewKeyStatus(key) ==
  [key |-> key, failCount |-> 0, cooldownUntil |-> NoDate, usedAt |-> NoDate]

InCooldownNever(r, t) == FALSE

InCooldown(r, t) == r.cooldownUntil # NoDate /\ r.cooldownUntil > t

Usable(r, t) == ~InCooldown(r, t)

SlotsOf(ks, key) == {j \in 1..Len(ks) : ks[j].key = key}

HasKey(ks, key) == SlotsOf(ks, key) # {}

(* Array.prototype.find: the first slot with the key *)
FindSlot(ks, key) == Min(SlotsOf(ks, key))

(* new Map(entries): a later entry replaces an earlier one with the same key *)
ExistingSlot(ks, key) == Max(SlotsOf(ks, key))

(* A write to the object in slot s, seen in every slot that holds it *)
WriteObject(ks, al, s, r) ==
  [j \in 1..Len(ks) |-> IF al[j] = al[s] THEN r ELSE ks[j]]

RECURSIVE Dedupe(_)
Dedupe(ls) ==
  IF ls = <<>> THEN <<>>
  ELSE LET rest == Dedupe(SubSeq(ls, 1, Len(ls) - 1)) IN
       IF \E i \in 1..Len(rest) : rest[i] = ls[Len(ls)]
       THEN rest ELSE Append(rest, ls[Len(ls)])

MergeKeysDedupe(ks, keyLines) ==
  [i \in 1..Len(Dedupe(keyLines)) |->
     IF HasKey(ks, Dedupe(keyLines)[i])
     THEN ks[ExistingSlot(ks, Dedupe(keyLines)[i])]
     ELSE NewKeyStatus(Dedupe(keyLines)[i])]

MergeKeysFresh(ks, keyLines) ==
  [i \in 1..Len(keyLines) |-> NewKeyStatus(keyLines[i])]

MergeKeys(ks, keyLines) ==
  [i \in 1..Len(keyLines) |->
     IF HasKey(ks, keyLines[i])
     THEN ks[ExistingSlot(ks, keyLines[i])]
     ELSE NewKeyStatus(keyLines[i])]

MergeAlias(ks, keyLines) ==
  [i \in 1..Len(keyLines) |->
     IF HasKey(ks, keyLines[i])
     THEN Min({j \in 1..Len(keyLines) : keyLines[j] = keyLines[i]})
     ELSE i]

CursorAfterLoadReset(idx, n) == IF idx >= n THEN 0 ELSE idx

(* loadKeys assigns keys and lastLoadTime, never currentIndex *)
CursorAfterLoad(idx, n) == idx

loadKeysClearOnFailure(st, fs, t) ==
  LET scan == ScanFiles(fs, 1) IN
  IF scan.threw \/ scan.loadedFile = 0 \/ Len(scan.keyLines) = 0
  THEN [st EXCEPT !.keys = <<>>, !.alias = <<>>, !.loaded = FALSE,
                  !.keyLines = <<>>]
  ELSE [keys |-> MergeKeys(st.keys, scan.keyLines),
        alias |-> MergeAlias(st.keys, scan.keyLines),
        currentIndex |-> CursorAfterLoad(st.currentIndex, Len(scan.keyLines)),
        lastLoadTime |-> t,
        loaded |-> TRUE,
        keyLines |-> scan.keyLines]

(* loadKeys: the store after a load at time t that finds file system fs *)
loadKeys(st, fs, t) ==
  LET scan == ScanFiles(fs, 1) IN
  IF scan.threw \/ scan.loadedFile = 0 \/ Len(scan.keyLines) = 0
  THEN [st EXCEPT !.loaded = FALSE, !.keyLines = <<>>]
  ELSE [keys |-> MergeKeys(st.keys, scan.keyLines),
        alias |-> MergeAlias(st.keys, scan.keyLines),
        currentIndex |-> CursorAfterLoad(st.currentIndex, Len(scan.keyLines)),
        lastLoadTime |-> t,
        loaded |-> TRUE,
        keyLines |-> scan.keyLines]

Stale(lastLoad, t) == t - lastLoad > RELOAD_INTERVAL

maybeReloadKeys(st, fs, t) ==
  IF Stale(st.lastLoadTime, t) THEN loadKeys(st, fs, t) ELSE st

ScanIndex(idx, i, n) == (idx + i) % n

AdvanceCursorStuck(index, n) == index % n

AdvanceCursor(index, n) == (index + 1) % n

ForcedCursorZero(n) == 0

ForcedCursor(n) == IF n > 1 THEN 1 ELSE 0

ForcedKeyNone(ks) == None

ForcedKey(ks) == ks[1].key

FirstUsableOffset(ks, idx, t) ==
  LET n == Len(ks)
      hits == {i \in 0..(n - 1) : Usable(ks[ScanIndex(idx, i, n) + 1], t)}
  IN IF hits = {} THEN -1 ELSE Min(hits)

(* getNextKey after maybeReloadKeys: the store and the returned key *)
selectKey(st, t) ==
  LET ks == st.keys
      n == Len(ks)
      off == IF n = 0 THEN -1 ELSE FirstUsableOffset(ks, st.currentIndex, t)
      index == ScanIndex(st.currentIndex, off, n)
  IN IF n = 0
     THEN [st |-> st, ret |-> None, slot |-> 0]
     ELSE IF off >= 0
     THEN [st |-> [st EXCEPT
                     !.currentIndex = AdvanceCursor(index, n),
                     !.keys = WriteObject(ks, st.alias, index + 1,
                                [ks[index + 1] EXCEPT !.usedAt = t])],
           ret |-> ks[index + 1].key,
           slot |-> index + 1]
     ELSE [st |-> [st EXCEPT !.currentIndex = ForcedCursor(n)],
           ret |-> ForcedKey(ks),
           slot |-> 1]

getNextKey(st, fs, t) == selectKey(maybeReloadKeys(st, fs, t), t)

FailedRecordNoCount(r, t) == [r EXCEPT !.cooldownUntil = t + CooldownTicks]

FailedRecord(r, t) ==
  [r EXCEPT !.failCount = r.failCount + 1, !.cooldownUntil = t + CooldownTicks]

markKeyFailed(st, key, t) ==
  IF HasKey(st.keys, key)
  THEN LET s == FindSlot(st.keys, key) IN
       [st EXCEPT !.keys = WriteObject(st.keys, st.alias, s,
                                       FailedRecord(st.keys[s], t))]
  ELSE st

SuccessRecord(r) == [r EXCEPT !.failCount = 0, !.cooldownUntil = NoDate]

markKeySuccessAll(st, key) ==
  IF HasKey(st.keys, key)
  THEN [st EXCEPT !.keys = [j \in 1..Len(st.keys) |-> SuccessRecord(st.keys[j])]]
  ELSE st

markKeySuccess(st, key) ==
  IF HasKey(st.keys, key)
  THEN LET s == FindSlot(st.keys, key) IN
       [st EXCEPT !.keys = WriteObject(st.keys, st.alias, s,
                                       SuccessRecord(st.keys[s]))]
  ELSE st

CursorAfterReset(idx) == idx

resetAll(st) ==
  [st EXCEPT
     !.keys = [j \in 1..Len(st.keys) |-> SuccessRecord(st.keys[j])],
     !.currentIndex = CursorAfterReset(st.currentIndex)]

----------------------------------------------------------------------------
(* The state *)

Store ==
  [keys |-> keys, alias |-> alias, currentIndex |-> currentIndex,
   lastLoadTime |-> lastLoadTime, loaded |-> FALSE, keyLines |-> <<>>]

EmptyStore ==
  [keys |-> <<>>, alias |-> <<>>, currentIndex |-> 0, lastLoadTime |-> 0,
   loaded |-> FALSE, keyLines |-> <<>>]

SetStore(st) ==
  /\ keys' = st.keys
  /\ alias' = st.alias
  /\ currentIndex' = st.currentIndex
  /\ lastLoadTime' = st.lastLoadTime

(* last: the latest operation on the store, its key (argument or result)
   and the key lines it loaded (none when it loaded no file) *)
Op(op, key, lines) == [op |-> op, key |-> key, lines |-> lines]

(* The step is the operation op of the store (the clock stands still) *)
IsOp(op) == now' = now /\ last'.op = op

(* A request of POST /v1/chat/completions: where its handler stands (pc),
   the key getNextKey() gave it, the answer's status, the upstream calls it
   made and the status updates it applied to the store. One request is in
   flight at a time in SpecReq, SpecObs and SpecStream, two in SpecPair. *)
Reqs == {"r1", "r2"}

One == {"r1"}

IdleReq ==
  [pc |-> "idle", selected |-> FALSE, apiKey |-> None, stream |-> FALSE,
   closed |-> FALSE, status |-> 0, calls |-> 0, marks |-> 0]

NoRun == [n |-> 0, start |-> 0, picks |-> <<>>]

NoOblig == [until |-> NoDate, kept |-> FALSE]

NoDisk == <<>>

NoCall == [op |-> "none"]

(* obs[r]: the body request r came with, the error its upstream call or its
   stream threw (where "none": no error; its status and its message), the
   parts its upstream stream delivered and the frames it wrote *)
NoObs ==
  [body |-> <<>>, where |-> "none", status |-> 0, message |-> <<>>,
   parts |-> <<>>, frames |-> <<>>]

AllUsable(ks, t) == \A j \in 1..Len(ks) : Usable(ks[j], t)

NoneUsable(ks, t) == \A j \in 1..Len(ks) : InCooldown(ks[j], t)

Init ==
  \E fs \in FileSystems :
    LET st == loadKeys(EmptyStore, fs, StartTime) IN
    /\ keys = st.keys
    /\ alias = st.alias
    /\ currentIndex = st.currentIndex
    /\ lastLoadTime = st.lastLoadTime
    /\ now = StartTime
    /\ reqs = [r \in Reqs |-> IdleReq]
    /\ last = Op("constructor", None, st.keyLines)
    /\ rot = NoRun
    /\ oblig = [k \in Secrets |-> NoOblig]
    /\ disk = NoDisk
    /\ obs = [r \in Reqs |-> NoObs]
    /\ call = NoCall

----------------------------------------------------------------------------
(* The operations of the KeyManager *)

ClockStep(max) ==
  /\ now < max
  /\ now' = now + 1
  /\ UNCHANGED <<keys, alias, currentIndex, lastLoadTime, reqs, last>>

(* A load is an input only when one happens *)
LoadInputs == IF Stale(lastLoadTime, now) THEN FileSystems ELSE {MkFs("throws", <<>>)}

GetNextKeyStep(fs) ==
  LET mid == maybeReloadKeys(Store, fs, now)
      r == selectKey(mid, now)
  IN /\ SetStore(r.st)
     /\ last' = Op("getNextKey", r.ret, mid.keyLines)
     /\ UNCHANGED <<now, reqs>>

MarkKeyFailedStep(key) ==
  /\ HasKey(keys, key) => keys[FindSlot(keys, key)].failCount < MaxFail
  /\ SetStore(markKeyFailed(Store, key, now))
  /\ last' = Op("markKeyFailed", key, <<>>)
  /\ UNCHANGED <<now, reqs>>

MarkKeySuccessStep(key) ==
  /\ SetStore(markKeySuccess(Store, key))
  /\ last' = Op("markKeySuccess", key, <<>>)
  /\ UNCHANGED <<now, reqs>>

ReloadStep(fs) ==
  LET st == loadKeys(Store, fs, now) IN
  /\ SetStore(st)
  /\ last' = Op("reload", None, st.keyLines)
  /\ UNCHANGED <<now, reqs>>

ResetAllStep ==
  /\ SetStore(resetAll(Store))
  /\ last' = Op("resetAll", None, <<>>)
  /\ UNCHANGED <<now, reqs>>

----------------------------------------------------------------------------
(* Spec: any caller, any order of calls *)

Tick == ClockStep(MaxTime) /\ UNCHANGED <<rot, oblig, aux>>

CallGetNextKey ==
  \E fs \in LoadInputs : GetNextKeyStep(fs) /\ UNCHANGED <<rot, oblig, aux>>

CallMarkKeyFailed ==
  \E key \in Secrets : MarkKeyFailedStep(key) /\ UNCHANGED <<rot, oblig, aux>>

CallMarkKeySuccess ==
  \E key \in Secrets : MarkKeySuccessStep(key) /\ UNCHANGED <<rot, oblig, aux>>

CallReload ==
  \E fs \in FileSystems : ReloadStep(fs) /\ UNCHANGED <<rot, oblig, aux>>

CallResetAll == ResetAllStep /\ UNCHANGED <<rot, oblig, aux>>

Next ==
  \/ Tick
  \/ CallGetNextKey
  \/ CallMarkKeyFailed
  \/ CallMarkKeySuccess
  \/ CallReload
  \/ CallResetAll

Spec == Init /\ [][Next]_vars

----------------------------------------------------------------------------
(* Properties of the KeyManager contract, under Spec *)

Status(r) == <<r.failCount, r.cooldownUntil>>

KeyList(ks) == [i \in 1..Len(ks) |-> ks[i].key]

(* C3. Forced degradation: a getNextKey() on a non-empty store returns the
   key of a record of the store and never null, also when every record is
   in cooldown. *)
C3_ForcedDegradation ==
  (last.op = "getNextKey" /\ Len(keys) > 0) =>
    (last.key # None /\ HasKey(keys, last.key))

(* C3 witness: a selection has just returned a key while every record of
   the store was in cooldown. *)
C3_Witness ==
  /\ last.op = "getNextKey"
  /\ Len(keys) > 1
  /\ NoneUsable(keys, now)
  /\ last.key = keys[1].key

(* C6. markKeyFailed(key): when the key is in the store, the record found
   gets failCount + 1 and cooldownUntil = now + cooldown, and the key list
   and the cursor stay; when the key is not in the store, nothing changes. *)
C6_MarkFailure ==
  [][\A key \in Secrets :
       (IsOp("markKeyFailed") /\ last'.key = key) =>
         IF HasKey(keys, key)
         THEN LET s == FindSlot(keys, key) IN
              /\ keys'[s].failCount = keys[s].failCount + 1
              /\ keys'[s].cooldownUntil = now + CooldownTicks
              /\ KeyList(keys') = KeyList(keys)
              /\ currentIndex' = currentIndex
         ELSE UNCHANGED <<keys, alias, currentIndex, lastLoadTime>>]_vars

(* C6 witness: a second failure has just been recorded for a key of the
   store. *)
C6_Witness ==
  /\ last.op = "markKeyFailed"
  /\ HasKey(keys, last.key)
  /\ keys[FindSlot(keys, last.key)].failCount = 2
  /\ keys[FindSlot(keys, last.key)].cooldownUntil = now + CooldownTicks

(* C7. markKeySuccess(key): the record found gets failCount 0 and no
   cooldownUntil; every slot that holds another record keeps its failCount
   and cooldownUntil; the key list and the cursor stay. *)
C7_MarkSuccess ==
  [][\A key \in Secrets :
       (IsOp("markKeySuccess") /\ last'.key = key) =>
         /\ KeyList(keys') = KeyList(keys)
         /\ alias' = alias
         /\ currentIndex' = currentIndex
         /\ IF HasKey(keys, key)
            THEN LET s == FindSlot(keys, key) IN
                 /\ keys'[s].failCount = 0
                 /\ keys'[s].cooldownUntil = NoDate
                 /\ \A j \in 1..Len(keys) :
                      alias[j] # alias[s] => Status(keys'[j]) = Status(keys[j])
            ELSE keys' = keys]_vars

(* C7 witness: a success has just cleared one record while another record
   of the store is still in cooldown. *)
C7_Witness ==
  /\ last.op = "markKeySuccess"
  /\ HasKey(keys, last.key)
  /\ keys[FindSlot(keys, last.key)].failCount = 0
  /\ \E j \in 1..Len(keys) : keys[j].failCount > 0 /\ InCooldown(keys[j], now)

(* C8 as claimed. After a reload that loads a file, every slot of a secret
   that was in the store shows the failCount and cooldownUntil the secret
   had in each of its slots before; a secret that was not in the store has
   failCount 0 and no cooldown; the key list is the loaded file's. *)
C8_Original ==
  [][(IsOp("reload") /\ last'.lines # <<>>) =>
         /\ KeyList(keys') = last'.lines
         /\ \A i \in 1..Len(keys') :
              IF HasKey(keys, keys'[i].key)
              THEN \A j \in SlotsOf(keys, keys'[i].key) :
                     Status(keys'[i]) = Status(keys[j])
              ELSE Status(keys'[i]) = <<0, NoDate>>]_vars

(* C8 amended. After a reload that loads a file, every slot of a secret
   that was in the store shows the failCount and cooldownUntil of the last
   slot that held the secret before (the one status it had, when it held
   one slot); a secret that was not in the store has failCount 0 and no
   cooldown; the key list is the loaded file's. *)
C8_ReloadPreservesState ==
  [][(IsOp("reload") /\ last'.lines # <<>>) =>
         /\ KeyList(keys') = last'.lines
         /\ \A i \in 1..Len(keys') :
              IF HasKey(keys, keys'[i].key)
              THEN Status(keys'[i]) = Status(keys[Max(SlotsOf(keys, keys'[i].key))])
              ELSE Status(keys'[i]) = <<0, NoDate>>]_vars

(* C8 witness: a reload has just loaded a list in which one secret still
   carries its failure and cooldown and another has none. *)
C8_Witness ==
  /\ last.op = "reload"
  /\ last.lines # <<>>
  /\ \E i \in 1..Len(keys) : keys[i].failCount > 0 /\ keys[i].cooldownUntil # NoDate
  /\ \E j \in 1..Len(keys) : Status(keys[j]) = <<0, NoDate>>

(* C9 as claimed: after any reload the cursor is an index of the list. *)
C9_Original ==
  (last.op = "reload" /\ Len(keys) >= 1) => currentIndex \in 0..(Len(keys) - 1)

(* C9 amended. reload() never changes the cursor, also when the cursor is
   out of bounds for the new list; the next getNextKey() on a non-empty
   store leaves the cursor in [0, N). *)
C9_ReloadKeepsCursor ==
  [][/\ IsOp("reload") => currentIndex' = currentIndex
     /\ (IsOp("getNextKey") /\ Len(keys') >= 1) =>
          currentIndex' \in 0..(Len(keys') - 1)]_vars

(* C9 witness: a reload has just shrunk the list below the cursor. *)
C9_Witness ==
  /\ last.op = "reload"
  /\ last.lines # <<>>
  /\ Len(keys) >= 1
  /\ currentIndex >= Len(keys)

(* C10 as claimed: after resetAll() every record has failCount 0 and no
   cooldownUntil, and the cursor is 0. *)
C10_ResetAll ==
  last.op = "resetAll" =>
    /\ \A j \in 1..Len(keys) : Status(keys[j]) = <<0, NoDate>>
    /\ currentIndex = 0

----------------------------------------------------------------------------
(* SpecReq: the store driven by the handler of POST /v1/chat/completions
   and by the administrative routes *)

Bodies ==
  { [model |-> FALSE, messages |-> TRUE, stream |-> FALSE],
    [model |-> TRUE, messages |-> FALSE, stream |-> TRUE],
    [model |-> TRUE, messages |-> TRUE, stream |-> FALSE],
    [model |-> TRUE, messages |-> TRUE, stream |-> TRUE] }

(* An error message is a sequence of characters *)

LowerCase(c) ==
  CASE c = "A" -> "a" [] c = "B" -> "b" [] c = "C" -> "c" [] c = "D" -> "d"
    [] c = "E" -> "e" [] c = "F" -> "f" [] c = "G" -> "g" [] c = "H" -> "h"
    [] c = "I" -> "i" [] c = "J" -> "j" [] c = "K" -> "k" [] c = "L" -> "l"
    [] c = "M" -> "m" [] c = "N" -> "n" [] c = "O" -> "o" [] c = "P" -> "p"
    [] c = "Q" -> "q" [] c = "R" -> "r" [] c = "S" -> "s" [] c = "T" -> "t"
    [] c = "U" -> "u" [] c = "V" -> "v" [] c = "W" -> "w" [] c = "X" -> "x"
    [] c = "Y" -> "y" [] c = "Z" -> "z"
    [] OTHER -> c

toLowerCase(m) == [i \in 1..Len(m) |-> LowerCase(m[i])]

includes(m, sub) ==
  \E i \in 1..(Len(m) - Len(sub) + 1) : SubSeq(m, i, i + Len(sub) - 1) = sub

NoMessage == <<>>

shouldCooldownAlways(message) == TRUE

shouldCooldownKeyByErrorMessage(message) ==
  LET m == toLowerCase(message) IN
  \/ includes(m, <<"r", "a", "t", "e">>)
  \/ includes(m, <<"l", "i", "m", "i", "t">>)
  \/ includes(m, <<"q", "u", "o", "t", "a">>)
  \/ includes(m, <<"4", "2", "9">>)

Messages ==
  { <<"R", "a", "t", "e">>,
    <<"L", "I", "M", "I", "T">>,
    <<"q", "u", "o", "t", "a">>,
    <<"4", "2", "9">>,
    <<"5", "0", "0">>,
    <<"r", "a", "t">>,
    NoMessage }

AfterSelectNoGuard(req, key, stream) ==
  [req EXCEPT !.pc = "calling", !.selected = TRUE, !.apiKey = key,
              !.stream = stream, !.calls = req.calls + 1]

(* The request after getNextKey() returned key: 503 on null, else the
   upstream call chatCompletion(requestForSdk, apiKey) is made and awaited *)
AfterSelect(req, key, stream) ==
  IF key = None
  THEN [req EXCEPT !.pc = "done", !.selected = TRUE, !.status = 503]
  ELSE [req EXCEPT !.pc = "calling", !.selected = TRUE, !.apiKey = key,
                   !.stream = stream, !.calls = req.calls + 1]

ReqTick == ClockStep(ReqMaxTime) /\ UNCHANGED <<rot, oblig, aux>>

ReceiveSelectFirstStep(r, body) ==
    /\ reqs[r].pc = "idle"
    /\ \E fs \in LoadInputs :
         LET mid == maybeReloadKeys(Store, fs, now)
             sel == selectKey(mid, now)
         IN /\ SetStore(sel.st)
            /\ last' = Op("getNextKey", sel.ret, mid.keyLines)
            /\ reqs' = [reqs EXCEPT ![r] =
                          IF ~body.model \/ ~body.messages
                          THEN [@ EXCEPT !.pc = "done", !.status = 400]
                          ELSE AfterSelect(@, sel.ret, body.stream)]
    /\ UNCHANGED <<now, rot, oblig>>

(* The handler up to its first await *)
ReceiveStep(r, body) ==
    /\ reqs[r].pc = "idle"
    /\ IF ~body.model \/ ~body.messages
       THEN /\ reqs' = [reqs EXCEPT ![r] = [@ EXCEPT !.pc = "done", !.status = 400]]
            /\ UNCHANGED <<keys, alias, currentIndex, lastLoadTime, last>>
       ELSE \E fs \in LoadInputs :
              LET mid == maybeReloadKeys(Store, fs, now)
                  sel == selectKey(mid, now)
              IN /\ SetStore(sel.st)
                 /\ last' = Op("getNextKey", sel.ret, mid.keyLines)
                 /\ reqs' = [reqs EXCEPT ![r] = AfterSelect(@, sel.ret, body.stream)]
    /\ UNCHANGED <<now, rot, oblig>>

CallThrowsRetryStep(r, message) ==
    /\ reqs[r].pc = "calling"
    /\ reqs[r].calls < 3
    /\ reqs' = [reqs EXCEPT ![r] = [@ EXCEPT !.calls = @ + 1]]
    /\ UNCHANGED <<keys, alias, currentIndex, lastLoadTime, now, last, rot, oblig>>

(* chatCompletion() rejects: the outer catch *)
CallThrowsStep(r, message) ==
    /\ reqs[r].pc = "calling"
    /\ IF shouldCooldownKeyByErrorMessage(message)
       THEN /\ HasKey(keys, reqs[r].apiKey) =>
                 keys[FindSlot(keys, reqs[r].apiKey)].failCount < MaxFail
            /\ SetStore(markKeyFailed(Store, reqs[r].apiKey, now))
            /\ last' = Op("markKeyFailed", reqs[r].apiKey, <<>>)
            /\ reqs' = [reqs EXCEPT ![r] =
                         [@ EXCEPT !.pc = "done", !.status = 500, !.marks = @ + 1]]
       ELSE /\ reqs' = [reqs EXCEPT ![r] = [@ EXCEPT !.pc = "done", !.status = 500]]
            /\ UNCHANGED <<keys, alias, currentIndex, lastLoadTime, last>>
    /\ UNCHANGED <<now, rot, oblig>>

(* chatCompletion() resolves and the answer is not streamed *)
CallReturnsTextStep(r) ==
    /\ reqs[r].pc = "calling"
    /\ SetStore(markKeySuccess(Store, reqs[r].apiKey))
    /\ last' = Op("markKeySuccess", reqs[r].apiKey, <<>>)
    /\ reqs' = [reqs EXCEPT ![r] =
                 [@ EXCEPT !.pc = "done", !.status = 200, !.marks = @ + 1]]
    /\ UNCHANGED <<now, rot, oblig>>

CallReturnsStreamMarkStep(r) ==
    /\ reqs[r].pc = "calling"
    /\ reqs[r].stream
    /\ SetStore(markKeySuccess(Store, reqs[r].apiKey))
    /\ last' = Op("markKeySuccess", reqs[r].apiKey, <<>>)
    /\ reqs' = [reqs EXCEPT ![r] =
                 [@ EXCEPT !.pc = "streaming", !.status = 200, !.marks = @ + 1]]
    /\ UNCHANGED <<now, rot, oblig>>

(* chatCompletion() resolves with a stream for a streaming request: the
   headers and the role frame are written *)
CallReturnsStreamStep(r) ==
    /\ reqs[r].pc = "calling"
    /\ reqs[r].stream
    /\ reqs' = [reqs EXCEPT ![r] = [@ EXCEPT !.pc = "streaming", !.status = 200]]
    /\ UNCHANGED <<keys, alias, currentIndex, lastLoadTime, now, last, rot, oblig>>

(* req.on('close') *)
ClientCloseStep(r) ==
    /\ reqs[r].pc = "streaming"
    /\ ~reqs[r].closed
    /\ reqs' = [reqs EXCEPT ![r] = [@ EXCEPT !.closed = TRUE]]
    /\ UNCHANGED <<keys, alias, currentIndex, lastLoadTime, now, last, rot, oblig>>

StreamEndsNoMarkStep(r) ==
    /\ reqs[r].pc = "streaming"
    /\ reqs' = [reqs EXCEPT ![r] = [@ EXCEPT !.pc = "done"]]
    /\ UNCHANGED <<keys, alias, currentIndex, lastLoadTime, now, last, rot, oblig>>

(* The stream ends, or the loop breaks on clientClosed *)
StreamEndsStep(r) ==
    /\ reqs[r].pc = "streaming"
    /\ IF ~reqs[r].closed
       THEN /\ SetStore(markKeySuccess(Store, reqs[r].apiKey))
            /\ last' = Op("markKeySuccess", reqs[r].apiKey, <<>>)
            /\ reqs' = [reqs EXCEPT ![r] = [@ EXCEPT !.pc = "done", !.marks = @ + 1]]
       ELSE /\ reqs' = [reqs EXCEPT ![r] = [@ EXCEPT !.pc = "done"]]
            /\ UNCHANGED <<keys, alias, currentIndex, lastLoadTime, last>>
    /\ UNCHANGED <<now, rot, oblig>>

(* The stream throws: the inner catch *)
StreamThrowsStep(r) ==
    /\ reqs[r].pc = "streaming"
    /\ reqs' = [reqs EXCEPT ![r] = [@ EXCEPT !.pc = "done"]]
    /\ UNCHANGED <<keys, alias, currentIndex, lastLoadTime, now, last, rot, oblig>>

(* The answer is out; the next request of the connection can arrive *)
RetireStep(r) ==
    /\ reqs[r].pc = "done"
    /\ reqs' = [reqs EXCEPT ![r] = IdleReq]
    /\ UNCHANGED <<keys, alias, currentIndex, lastLoadTime, now, last, rot, oblig>>

(* The handler's steps in SpecReq *)

Receive(r) == \E body \in Bodies : ReceiveStep(r, body) /\ UNCHANGED aux

CallThrows(r) ==
  \E message \in Messages : CallThrowsStep(r, message) /\ UNCHANGED aux

CallReturnsText(r) == CallReturnsTextStep(r) /\ UNCHANGED aux

CallReturnsStream(r) == CallReturnsStreamStep(r) /\ UNCHANGED aux

ClientClose(r) == ClientCloseStep(r) /\ UNCHANGED aux

StreamEnds(r) == StreamEndsStep(r) /\ UNCHANGED aux

StreamThrows(r) == StreamThrowsStep(r) /\ UNCHANGED aux

Retire(r) == RetireStep(r) /\ UNCHANGED aux

(* POST /admin/reload, and the scheduler's runReload *)
AdminReload ==
  \E fs \in FileSystems :
    LET st == loadKeys(Store, fs, now) IN
    /\ SetStore(st)
    /\ last' = Op("reload", None, st.keyLines)
    /\ UNCHANGED <<now, reqs, rot, oblig, aux>>

(* POST /admin/reset *)
AdminReset ==
  /\ SetStore(resetAll(Store))
  /\ last' = Op("resetAll", None, <<>>)
  /\ UNCHANGED <<now, reqs, rot, oblig, aux>>

NextReq ==
  \/ ReqTick
  \/ \E r \in One : Receive(r)
  \/ \E r \in One : CallThrows(r)
  \/ \E r \in One : CallReturnsText(r)
  \/ \E r \in One : CallReturnsStream(r)
  \/ \E r \in One : ClientClose(r)
  \/ \E r \in One : StreamEnds(r)
  \/ \E r \in One : StreamThrows(r)
  \/ \E r \in One : Retire(r)
  \/ AdminReload
  \/ AdminReset

SpecReq == Init /\ [][NextReq]_vars

(* The step takes request r through getNextKey() *)
Selects(r) == reqs[r].pc = "idle" /\ reqs'[r].selected

(* C4. getNextKey() returns null exactly when the store holds no record;
   a request that got null is answered 503, has made no upstream call and
   has applied no status update, and only such a request is answered 503. *)
C4_EmptyStore ==
  /\ last.op = "getNextKey" => (last.key = None <=> Len(keys) = 0)
  /\ \A r \in Reqs :
       /\ (reqs[r].selected /\ reqs[r].apiKey = None) =>
            /\ reqs[r].pc = "done"
            /\ reqs[r].status = 503
            /\ reqs[r].calls = 0
            /\ reqs[r].marks = 0
       /\ reqs[r].status = 503 => (reqs[r].selected /\ reqs[r].apiKey = None)

(* C4 witness: a request has just been answered 503 on an empty store. *)
C4_Witness ==
  /\ last.op = "getNextKey"
  /\ Len(keys) = 0
  /\ \E r \in Reqs : reqs[r].status = 503 /\ reqs[r].calls = 0

(* C5 as claimed: a request that selects while no record is usable (every
   record in cooldown, or none at all) is answered 503 and makes no
   upstream call. *)
C5_Original ==
  [][\A r \in Reqs :
       (Selects(r) /\ NoneUsable(keys', now)) =>
         (reqs'[r].status = 503 /\ reqs'[r].calls = 0)]_vars

(* C5 amended. A request that selects on an empty store is answered 503 and
   makes no upstream call; a request that selects while the store is not
   empty and every record is in cooldown is handed the first record's key
   and makes its one upstream call with it; no request makes a second
   call. *)
C5_PoolExhaustion ==
  [][\A r \in Reqs :
       /\ (Selects(r) /\ Len(keys') = 0) =>
            /\ reqs'[r].pc = "done"
            /\ reqs'[r].status = 503
            /\ reqs'[r].calls = 0
       /\ (Selects(r) /\ Len(keys') > 0 /\ NoneUsable(keys', now)) =>
            /\ reqs'[r].pc = "calling"
            /\ reqs'[r].apiKey = keys'[1].key
            /\ reqs'[r].calls = 1
       /\ reqs'[r].calls <= 1]_vars

(* C5 witness: a request is making its upstream call with the first
   record's key, selected while every record was in cooldown. *)
C5_Witness ==
  /\ last.op = "getNextKey"
  /\ Len(keys) > 0
  /\ NoneUsable(keys, now)
  /\ \E r \in Reqs :
       /\ reqs[r].pc = "calling"
       /\ reqs[r].apiKey = keys[1].key
       /\ reqs[r].calls = 1

----------------------------------------------------------------------------
(* SpecRot: Spec with the rotation run recorded in rot. A run starts at a
   getNextKey() that loads nothing, on a store whose records are all usable;
   it holds the cursor it started from and the slots returned since; a
   markKeyFailed, a reload (also the one a stale getNextKey makes) or a
   resetAll ends it. *)

RunAfterSelect(s) ==
  IF Stale(lastLoadTime, now) THEN NoRun
  ELSE IF rot.n > 0 /\ Len(rot.picks) < rot.n
  THEN [rot EXCEPT !.picks = Append(rot.picks, s)]
  ELSE IF Len(keys) > 0 /\ AllUsable(keys, now)
  THEN [n |-> Len(keys), start |-> currentIndex, picks |-> <<s>>]
  ELSE NoRun

RotTick == ClockStep(MaxTime) /\ UNCHANGED <<rot, oblig, aux>>

RotGetNextKey ==
  \E fs \in LoadInputs :
    /\ GetNextKeyStep(fs)
    /\ rot' = RunAfterSelect(getNextKey(Store, fs, now).slot)
    /\ UNCHANGED <<oblig, aux>>

RotMarkKeyFailed ==
  \E key \in Secrets : MarkKeyFailedStep(key) /\ rot' = NoRun /\ UNCHANGED <<oblig, aux>>

RotMarkKeySuccess ==
  \E key \in Secrets : MarkKeySuccessStep(key) /\ UNCHANGED <<rot, oblig, aux>>

RotReload ==
  \E fs \in FileSystems : ReloadStep(fs) /\ rot' = NoRun /\ UNCHANGED <<oblig, aux>>

RotResetAll == ResetAllStep /\ rot' = NoRun /\ UNCHANGED <<oblig, aux>>

NextRot ==
  \/ RotTick
  \/ RotGetNextKey
  \/ RotMarkKeyFailed
  \/ RotMarkKeySuccess
  \/ RotReload
  \/ RotResetAll

SpecRot == Init /\ [][NextRot]_vars

(* C1 as claimed: after the N selections of a run the cursor has the value
   it started from. *)
C1_Original ==
  (rot.n > 0 /\ Len(rot.picks) = rot.n) => currentIndex = rot.start

(* C1 amended. In a run on N usable records, the j-th selection returns the
   record at position (start + j - 1) mod N, so N selections return every
   record once, in list order from the cursor and wrapping around; after
   the N-th the cursor is at its starting position modulo N (its starting
   value, when that was below N). *)
C1_RotationFairness ==
  rot.n > 0 =>
    /\ rot.n = Len(keys)
    /\ \A j \in 1..Len(rot.picks) :
         rot.picks[j] = ((rot.start + j - 1) % rot.n) + 1
    /\ last.op = "getNextKey" => last.key = keys[rot.picks[Len(rot.picks)]].key
    /\ Len(rot.picks) = rot.n =>
         /\ currentIndex % rot.n = rot.start % rot.n
         /\ rot.start < rot.n => currentIndex = rot.start

(* C1 witness: a run of N = MaxLines selections that started at the last
   slot has wrapped around and is complete. *)
C1_Witness ==
  /\ rot.n = MaxLines
  /\ rot.n > 1
  /\ rot.start = rot.n - 1
  /\ Len(rot.picks) = rot.n
  /\ last.op = "getNextKey"

----------------------------------------------------------------------------
(* SpecCool: Spec with the exclusions owed recorded in oblig. oblig[k].until
   is the end of the cooldown the latest markKeyFailed(k) on a key of the
   store started; markKeySuccess(k) and resetAll() cancel it. oblig[k].kept
   says that k held one slot when it was marked and that every load since
   has listed k. *)

ObligAfterLoad(st) ==
  IF st.keyLines # <<>>
  THEN [k \in Secrets |->
          [oblig[k] EXCEPT !.kept = oblig[k].kept /\ HasKey(st.keys, k)]]
  ELSE oblig

ObligAfterFailure(key) ==
  IF HasKey(keys, key)
  THEN [oblig EXCEPT ![key] =
          [until |-> now + CooldownTicks,
           kept |-> Cardinality(SlotsOf(keys, key)) = 1]]
  ELSE oblig

CoolTick == ClockStep(MaxTime) /\ UNCHANGED <<rot, oblig, aux>>

CoolGetNextKey ==
  \E fs \in LoadInputs :
    /\ GetNextKeyStep(fs)
    /\ oblig' = ObligAfterLoad(maybeReloadKeys(Store, fs, now))
    /\ UNCHANGED <<rot, aux>>

CoolMarkKeyFailed ==
  \E key \in Secrets :
    MarkKeyFailedStep(key) /\ oblig' = ObligAfterFailure(key) /\ UNCHANGED <<rot, aux>>

CoolMarkKeySuccess ==
  \E key \in Secrets :
    /\ MarkKeySuccessStep(key)
    /\ oblig' = [oblig EXCEPT ![key] = NoOblig]
    /\ UNCHANGED <<rot, aux>>

CoolReload ==
  \E fs \in FileSystems :
    /\ ReloadStep(fs)
    /\ oblig' = ObligAfterLoad(loadKeys(Store, fs, now))
    /\ UNCHANGED <<rot, aux>>

CoolResetAll ==
  /\ ResetAllStep
  /\ oblig' = [k \in Secrets |-> NoOblig]
  /\ UNCHANGED <<rot, aux>>

NextCool ==
  \/ CoolTick
  \/ CoolGetNextKey
  \/ CoolMarkKeyFailed
  \/ CoolMarkKeySuccess
  \/ CoolReload
  \/ CoolResetAll

SpecCool == Init /\ [][NextCool]_vars

OtherUsable(ks, key, t) ==
  \E j \in 1..Len(ks) : ks[j].key # key /\ Usable(ks[j], t)

(* C2 as claimed: a getNextKey() does not return a key whose latest
   markKeyFailed started a cooldown that has not ended (and that no
   markKeySuccess or resetAll cancelled), when a record with another key is
   usable at the selection. *)
C2_Original ==
  [][(IsOp("getNextKey") /\ last'.key # None /\ oblig'[last'.key].until > now)
       => ~OtherUsable(keys', last'.key, now)]_vars

(* C2 amended. After markKeyFailed(k) on a key that holds one slot of the
   store, and as long as every load since has listed k, a getNextKey() does
   not return k before the cooldown has ended, when a record with another
   key is usable at the selection. *)
C2_CooldownExclusion ==
  [][(/\ IsOp("getNextKey")
      /\ last'.key # None
      /\ oblig'[last'.key].until > now
      /\ oblig'[last'.key].kept)
       => ~OtherUsable(keys', last'.key, now)]_vars

(* C2 witness: a selection has just passed over a key that is in cooldown
   and still owed its exclusion, and returned another key. *)
C2_Witness ==
  /\ last.op = "getNextKey"
  /\ last.key # None
  /\ \E k \in Secrets :
       /\ k # last.key
       /\ oblig[k].kept
       /\ oblig[k].until > now
       /\ HasKey(keys, k)
       /\ keys[1].key = k
       /\ currentIndex = 0

----------------------------------------------------------------------------
(* SpecLoad: Spec with the file system of the latest load recorded in disk
   (NoDisk after a step that made no load), and with more file systems: the
   default file alone holding keys, and comment lines that are indented. *)

IndentedComment == <<SP, HASH, "k2">>

IndentedFs ==
  [f \in {"keys_high.txt", "active_keys.txt", "keysFile"} |->
     IF f = "keys_high.txt" THEN TextFile(<<IndentedComment, BlankLine>>)
     ELSE IF f = "active_keys.txt" THEN AbsentFile
     ELSE TextFile(<<IndentedComment, Padded(<<"k2">>), <<"k1">>, CommentLine>>)]

LoadFileSystems ==
  FileSystems
    \cup {MkFs("keysFile", ls) : ls \in {l \in KeyLists : Len(l) = 1}}
    \cup {IndentedFs}

LoadTick == ClockStep(MaxTime) /\ UNCHANGED <<rot, oblig, aux>>

LoadGetNextKey ==
  \E fs \in (IF Stale(lastLoadTime, now) THEN LoadFileSystems
              ELSE {MkFs("throws", <<>>)}) :
    /\ GetNextKeyStep(fs)
    /\ disk' = IF Stale(lastLoadTime, now) THEN fs ELSE NoDisk
    /\ UNCHANGED <<rot, oblig, obs, call>>

LoadMarkKeyFailed ==
  \E key \in Secrets :
    MarkKeyFailedStep(key) /\ disk' = NoDisk /\ UNCHANGED <<rot, oblig, obs, call>>

LoadReload ==
  \E fs \in LoadFileSystems :
    ReloadStep(fs) /\ disk' = fs /\ UNCHANGED <<rot, oblig, obs, call>>

NextLoad ==
  \/ LoadTick
  \/ LoadGetNextKey
  \/ LoadMarkKeyFailed
  \/ LoadReload

SpecLoad == Init /\ [][NextLoad]_vars

(* The lines of a file that are neither blank nor '#' lines, trimmed *)
RECURSIVE RemainingLines(_)
RemainingLines(lines) ==
  IF lines = <<>> THEN <<>>
  ELSE LET t == Trim(Head(lines)) IN
       IF t = <<>> \/ t[1] = HASH
       THEN RemainingLines(Tail(lines))
       ELSE <<t>> \o RemainingLines(Tail(lines))

(* The candidates, by priority 1..3, that exist and have a line left *)
Candidates(fs) ==
  {i \in 1..3 :
     LET f == fs[<<"keys_high.txt", "active_keys.txt", "keysFile">>[i]] IN
     f.exists /\ f.readable /\ RemainingLines(f.lines) # <<>>}

(* A file that cannot be read comes before every candidate *)
ReadFails(fs) ==
  \E i \in 1..3 :
    LET f == fs[<<"keys_high.txt", "active_keys.txt", "keysFile">>[i]] IN
    /\ f.exists /\ ~f.readable
    /\ \A j \in Candidates(fs) : i < j

(* C11. A load that takes keys takes them from the highest-priority
   candidate that exists and has a line left after dropping blank and '#'
   lines: the key list is exactly that file's remaining lines in file order,
   with no key of another candidate added. A load takes no keys only when
   there is no such candidate or a read fails before it. *)
C11_OneFile ==
  disk # NoDisk =>
    IF last.lines # <<>>
    THEN /\ Candidates(disk) # {}
         /\ KeyList(keys) =
              RemainingLines(
                disk[<<"keys_high.txt", "active_keys.txt", "keysFile">>
                       [Min(Candidates(disk))]].lines)
    ELSE Candidates(disk) = {} \/ ReadFails(disk)

(* C11 witness: a load has just taken its one key from active_keys.txt,
   passing over a keys_high.txt that exists with comment lines only, and the
   default file holds a key that is not in the store. *)
C11_Witness ==
  /\ disk # NoDisk
  /\ last.lines # <<>>
  /\ disk["keys_high.txt"].exists
  /\ Min(Candidates(disk)) = 2
  /\ 3 \in Candidates(disk)
  /\ \E i \in 1..Len(RemainingLines(disk["keysFile"].lines)) :
       ~HasKey(keys, RemainingLines(disk["keysFile"].lines)[i])

----------------------------------------------------------------------------
(* SpecObs: SpecReq without the administrative routes, with what the request
   met recorded in obs: its body, and the error (status and message) that
   chatCompletion() or the stream threw. The handler reads error.message
   only, so the status of the error is free. *)

ErrorStatuses == {429, 500}

Observe(r, field, value) == [obs EXCEPT ![r] = [@ EXCEPT ![field] = value]]

ObserveError(r, where, status, message) ==
  [obs EXCEPT ![r] =
     [@ EXCEPT !.where = where, !.status = status, !.message = message]]

ObsTick == ClockStep(ReqMaxTime) /\ UNCHANGED <<rot, oblig, aux>>

ObsReceive(r) ==
  \E body \in Bodies :
    /\ ReceiveStep(r, body)
    /\ obs' = Observe(r, "body", body)
    /\ UNCHANGED <<disk, call>>

ObsCallThrows(r) ==
  \E message \in Messages, status \in ErrorStatuses :
    /\ CallThrowsStep(r, message)
    /\ obs' = ObserveError(r, "call", status, message)
    /\ UNCHANGED <<disk, call>>

ObsCallReturnsText(r) == CallReturnsTextStep(r) /\ UNCHANGED aux

ObsCallReturnsStream(r) == CallReturnsStreamStep(r) /\ UNCHANGED aux

ObsClientClose(r) == ClientCloseStep(r) /\ UNCHANGED aux

ObsStreamEnds(r) == StreamEndsStep(r) /\ UNCHANGED aux

ObsStreamThrows(r) ==
  \E message \in Messages, status \in ErrorStatuses :
    /\ StreamThrowsStep(r)
    /\ obs' = ObserveError(r, "stream", status, message)
    /\ UNCHANGED <<disk, call>>

ObsRetire(r) ==
  /\ RetireStep(r)
  /\ obs' = [obs EXCEPT ![r] = NoObs]
  /\ UNCHANGED <<disk, call>>

NextObs ==
  \/ ObsTick
  \/ \E r \in One : ObsReceive(r)
  \/ \E r \in One : ObsCallThrows(r)
  \/ \E r \in One : ObsCallReturnsText(r)
  \/ \E r \in One : ObsCallReturnsStream(r)
  \/ \E r \in One : ObsClientClose(r)
  \/ \E r \in One : ObsStreamEnds(r)
  \/ \E r \in One : ObsStreamThrows(r)
  \/ \E r \in One : ObsRetire(r)

SpecObs == Init /\ [][NextObs]_vars

(* The step is the one in which the upstream call (where = "call") or the
   stream (where = "stream") of request r fails *)
Fails(r, where) == obs[r].where = "none" /\ obs'[r].where = where

(* The rate/quota heuristic on the text of a message, written out *)
RateQuotaText(message) ==
  \E i \in 1..Len(message), j \in 1..Len(message) :
    SubSeq(toLowerCase(message), i, j) \in
      { <<"r", "a", "t", "e">>, <<"l", "i", "m", "i", "t">>,
        <<"q", "u", "o", "t", "a">>, <<"4", "2", "9">> }

(* The step applies markKeyFailed to the key request r selected *)
MarksFailed(r) ==
  /\ IsOp("markKeyFailed")
  /\ last'.key = reqs[r].apiKey
  /\ reqs'[r].marks = reqs[r].marks + 1

(* The step changes no record, no cursor and no load time *)
StoreUnchanged == UNCHANGED <<keys, alias, currentIndex, lastLoadTime>>

(* C12 as claimed: when the upstream call of a request ends (at the call or
   in the stream) with status 429, or with an error whose message holds
   "rate", "limit", "quota" or "429" in any case, markKeyFailed is applied
   to the key the request selected. *)
C12_RateFailure ==
  [][\A r \in Reqs, where \in {"call", "stream"} :
       (/\ Fails(r, where)
        /\ obs'[r].status = 429 \/ RateQuotaText(obs'[r].message))
         => MarksFailed(r)]_vars

(* C13. When the upstream call of a request fails with an error whose
   message does not match the heuristic, the request is answered 500 and the
   step changes nothing in the store; a stream that fails with such an error
   changes nothing in the store either. *)
C13_TransientError ==
  [][\A r \in Reqs, where \in {"call", "stream"} :
       (Fails(r, where) /\ ~RateQuotaText(obs'[r].message)) =>
         /\ StoreUnchanged
         /\ reqs'[r].marks = reqs[r].marks
         /\ reqs'[r].pc = "done"
         /\ where = "call" => reqs'[r].status = 500]_vars

(* C13 witness: a request has been answered 500 after an error that does not
   match, while the record of its key still carries an earlier failure. *)
C13_Witness ==
  \E r \in Reqs :
    /\ obs[r].where = "call"
    /\ ~RateQuotaText(obs[r].message)
    /\ obs[r].message # NoMessage
    /\ reqs[r].status = 500
    /\ HasKey(keys, reqs[r].apiKey)
    /\ keys[FindSlot(keys, reqs[r].apiKey)].failCount > 0

(* The step completes request r with success: its call returns and the
   answer is not streamed, or its stream ends with no disconnect and no
   error *)
Succeeds(r) ==
  \/ reqs[r].pc = "calling" /\ reqs'[r].pc = "done" /\ reqs'[r].status = 200
  \/ /\ reqs[r].pc = "streaming" /\ reqs'[r].pc = "done"
     /\ ~reqs[r].closed
     /\ obs'[r].where = "none"

(* C14. A request that completes with success applies markKeySuccess to the
   key it selected: the record found for that key is cleared, and no record
   of another key changes. *)
C14_Success ==
  [][\A r \in Reqs :
       Succeeds(r) =>
         /\ IsOp("markKeySuccess")
         /\ last'.key = reqs[r].apiKey
         /\ reqs'[r].marks = reqs[r].marks + 1
         /\ HasKey(keys, reqs[r].apiKey) =>
              Status(keys'[FindSlot(keys, reqs[r].apiKey)]) = <<0, NoDate>>
         /\ Len(keys') = Len(keys)
         /\ \A j \in 1..Len(keys) :
              keys[j].key # reqs[r].apiKey => keys'[j] = keys[j]]_vars

(* C14 witness: a stream has just been drained with no disconnect and the
   key of the request is cleared, while the record of another key still
   carries a failure. *)
C14_Witness ==
  \E r \in Reqs :
    /\ last.op = "markKeySuccess"
    /\ last.key = reqs[r].apiKey
    /\ reqs[r].pc = "done"
    /\ reqs[r].stream
    /\ ~reqs[r].closed
    /\ reqs[r].status = 200
    /\ obs[r].where = "none"
    /\ \E j \in 1..Len(keys) :
         keys[j].key # reqs[r].apiKey /\ keys[j].failCount > 0

(* The step is the arrival of request r *)
Arrives(r) == reqs[r].pc = "idle" /\ reqs'[r].pc # "idle"

(* C16. A request without model, or without an array messages, is answered
   400 with no key selected and no upstream call, and its step changes
   nothing in the store: key list, failCount, cooldownUntil, usedAt, cursor
   and load time stay, so no reload has run. *)
C16_Malformed ==
  [][\A r \in Reqs :
       (Arrives(r) /\ (~obs'[r].body.model \/ ~obs'[r].body.messages)) =>
         /\ reqs'[r].pc = "done"
         /\ reqs'[r].status = 400
         /\ ~reqs'[r].selected
         /\ reqs'[r].calls = 0
         /\ reqs'[r].marks = 0
         /\ UNCHANGED <<keys, alias, currentIndex, lastLoadTime, last>>]_vars

(* C16 witness: a request without messages has been answered 400 while the
   keys were due for a reload. *)
C16_Witness ==
  \E r \in Reqs :
    /\ reqs[r].status = 400
    /\ ~obs[r].body.messages
    /\ Stale(lastLoadTime, now)

(* C17. A request makes at most one upstream call; once it has selected,
   no later step of it selects again (its key stays, the cursor stays, its
   count of calls stays); a request whose call or stream failed is over. *)
C17_SingleAttempt ==
  [][\A r \in Reqs :
       /\ reqs'[r].calls <= 1
       /\ (reqs[r].selected /\ reqs'[r].pc # "idle") =>
            /\ reqs'[r].selected
            /\ reqs'[r].apiKey = reqs[r].apiKey
            /\ reqs'[r].calls = reqs[r].calls
            /\ currentIndex' = currentIndex
       /\ obs'[r].where # "none" => reqs'[r].pc = "done"
       /\ reqs[r].pc = "done" => reqs'[r].pc \in {"done", "idle"}]_vars

(* C17 witness: a request is over after a rate-limit error of its one call,
   while a record of another key is usable. *)
C17_Witness ==
  \E r \in Reqs :
    /\ reqs[r].pc = "done"
    /\ obs[r].where = "call"
    /\ RateQuotaText(obs[r].message)
    /\ reqs[r].calls = 1
    /\ \E j \in 1..Len(keys) :
         keys[j].key # reqs[r].apiKey /\ Usable(keys[j], now)

(* C18. A request applies at most one status update over its lifetime; the
   update is one markKeySuccess or one markKeyFailed with the key the
   request selected, and it changes no record of another key; after the
   arrival, no other step of the handler changes the store. *)
C18_OneUpdate ==
  [][/\ \A r \in Reqs :
          /\ reqs'[r].marks <= 1
          /\ reqs'[r].marks > reqs[r].marks =>
               /\ reqs[r].selected
               /\ last'.op \in {"markKeySuccess", "markKeyFailed"}
               /\ last'.key = reqs[r].apiKey
               /\ Len(keys') = Len(keys)
               /\ \A j \in 1..Len(keys) :
                    keys[j].key # reqs[r].apiKey => keys'[j] = keys[j]
     /\ (~StoreUnchanged /\ \A r \in Reqs : ~Arrives(r)) =>
          \E r \in Reqs : reqs'[r].marks = reqs[r].marks + 1]_vars

(* C18 witness: a request is over with its one update, a markKeyFailed that
   put the record of its key in cooldown. *)
C18_Witness ==
  \E r \in Reqs :
    /\ reqs[r].pc = "done"
    /\ reqs[r].marks = 1
    /\ last.op = "markKeyFailed"
    /\ last.key = reqs[r].apiKey
    /\ HasKey(keys, reqs[r].apiKey)
    /\ InCooldown(keys[FindSlot(keys, reqs[r].apiKey)], now)

(* C19 as claimed: when the stream of a request throws while it is
   forwarded, markKeyFailed is applied to the key of the request if the
   message of the error matches the heuristic, and the store is unchanged if
   it does not. *)
C19_StreamError ==
  [][\A r \in Reqs :
       Fails(r, "stream") =>
         IF RateQuotaText(obs'[r].message)
         THEN MarksFailed(r)
         ELSE StoreUnchanged /\ reqs'[r].marks = reqs[r].marks]_vars

----------------------------------------------------------------------------
(* The stream of a streaming answer: the parts of result.fullStream, the
   chunks processStream() yields for them, and the frames the handler writes *)

Undefined == "undefined"

(* a || b and a ?? b on strings *)
Falsy(v) == v = Undefined \/ v = ""

OrElse(a, b) == IF Falsy(a) THEN b ELSE a

Coalesce(a, b) == IF a = Undefined THEN b ELSE a

Part(type, textDelta, text, usage) ==
  [type |-> type, textDelta |-> textDelta, text |-> text, usage |-> usage]

Parts ==
  { Part("text-delta", "a", Undefined, FALSE),
    Part("text-delta", "", Undefined, FALSE),
    Part("text-delta", Undefined, Undefined, FALSE),
    Part("reasoning", "a", Undefined, FALSE),
    Part("reasoning", Undefined, "b", FALSE),
    Part("reasoning", "", Undefined, FALSE),
    Part("finish", Undefined, Undefined, TRUE),
    Part("finish", Undefined, Undefined, FALSE),
    Part("step-finish", Undefined, Undefined, FALSE) }

StreamChunk(type, content, usage) ==
  [type |-> type, content |-> content, usage |-> usage]

NoChunk == StreamChunk("none", Undefined, FALSE)

processStreamKeepEmpty(part) ==
  CASE part.type = "reasoning" ->
         <<StreamChunk("reasoning", OrElse(part.textDelta, OrElse(part.text, "")),
                       FALSE)>>
    [] part.type = "text-delta" ->
         <<StreamChunk("text", Coalesce(part.textDelta, ""), FALSE)>>
    [] part.type = "finish" ->
         <<StreamChunk("done", Undefined, part.usage)>>
    [] OTHER -> <<>>

processStreamUsageOnly(part) ==
  IF part.type = "finish" /\ ~part.usage THEN <<>>
  ELSE processStreamKeepEmpty(part)

(* One turn of the loop of processStream(): the chunks yielded for a part *)
processStream(part) ==
  CASE part.type = "reasoning" ->
         LET delta == OrElse(part.textDelta, OrElse(part.text, "")) IN
         IF Falsy(delta) THEN <<>>
         ELSE <<StreamChunk("reasoning", delta, FALSE)>>
    [] part.type = "text-delta" ->
         LET delta == Coalesce(part.textDelta, "") IN
         IF Falsy(delta) THEN <<>>
         ELSE <<StreamChunk("text", delta, FALSE)>>
    [] part.type = "finish" ->
         <<StreamChunk("done", Undefined, part.usage)>>
    [] OTHER -> <<>>

(* A frame of the answer: its kind, and for a content frame the value of
   delta.content *)
Frame(kind, chunk) == [kind |-> kind, chunk |-> chunk]

RoleFrame == Frame("role", NoChunk)

ContentFrame(chunk) == Frame("content", chunk)

FinishFrame == Frame("finish", NoChunk)

ErrorFrame == Frame("error", NoChunk)

Terminator == Frame("terminator", NoChunk)

ForwardedFramesAlways(closed, chunks) ==
  [i \in 1..Len(chunks) |-> ContentFrame(chunks[i])]

(* The body of the for await loop, for the chunks of one part *)
ForwardedFrames(closed, chunks) ==
  IF closed THEN <<>>
  ELSE [i \in 1..Len(chunks) |-> ContentFrame(chunks[i])]

(* The frames written after the loop, and those of the inner catch *)
FinalFrames(closed) == IF closed THEN <<>> ELSE <<FinishFrame, Terminator>>

CatchFrames(closed) == IF closed THEN <<>> ELSE <<ErrorFrame, Terminator>>

(* A part of the stream arrives; with a chunk of it the loop goes on, or
   breaks when the client has closed *)
StreamPartStep(r, part) ==
    /\ reqs[r].pc = "streaming"
    /\ IF Len(processStream(part)) > 0 /\ reqs[r].closed
       THEN reqs' = [reqs EXCEPT ![r] = [@ EXCEPT !.pc = "done"]]
       ELSE UNCHANGED reqs
    /\ UNCHANGED <<keys, alias, currentIndex, lastLoadTime, now, last, rot, oblig>>

Written(r, parts, frames) ==
  [obs EXCEPT ![r] =
     [@ EXCEPT !.parts = @ \o parts, !.frames = @ \o frames]]

(* The handler's steps with the parts met and the frames written recorded *)

FwdReceive(r) == \E body \in Bodies : ReceiveStep(r, body) /\ UNCHANGED aux

FwdCallThrows(r) ==
  \E message \in Messages : CallThrowsStep(r, message) /\ UNCHANGED aux

FwdCallReturnsText(r) == CallReturnsTextStep(r) /\ UNCHANGED aux

FwdCallReturnsStream(r) ==
  /\ CallReturnsStreamStep(r)
  /\ obs' = Written(r, <<>>, <<RoleFrame>>)
  /\ UNCHANGED <<disk, call>>

FwdStreamPart(r, ps) ==
  \E part \in ps :
    /\ Len(obs[r].parts) < MaxParts
    /\ StreamPartStep(r, part)
    /\ obs' = Written(r, <<part>>,
                      ForwardedFrames(reqs[r].closed, processStream(part)))
    /\ UNCHANGED <<disk, call>>

FwdClientClose(r) == ClientCloseStep(r) /\ UNCHANGED aux

FwdStreamEnds(r) ==
  /\ StreamEndsStep(r)
  /\ obs' = Written(r, <<>>, FinalFrames(reqs[r].closed))
  /\ UNCHANGED <<disk, call>>

FwdStreamThrows(r) ==
  \E message \in Messages :
    /\ StreamThrowsStep(r)
    /\ obs' = [Written(r, <<>>, CatchFrames(reqs[r].closed))
                 EXCEPT ![r] = [@ EXCEPT !.where = "stream"]]
    /\ UNCHANGED <<disk, call>>

FwdRetire(r) ==
  /\ RetireStep(r)
  /\ obs' = [obs EXCEPT ![r] = NoObs]
  /\ UNCHANGED <<disk, call>>

(* SpecStream: one request at a time, every kind of part *)

NextStream ==
  \/ \E r \in One : FwdReceive(r)
  \/ \E r \in One : FwdCallThrows(r)
  \/ \E r \in One : FwdCallReturnsText(r)
  \/ \E r \in One : FwdCallReturnsStream(r)
  \/ \E r \in One : FwdStreamPart(r, Parts)
  \/ \E r \in One : FwdClientClose(r)
  \/ \E r \in One : FwdStreamEnds(r)
  \/ \E r \in One : FwdStreamThrows(r)
  \/ \E r \in One : FwdRetire(r)

SpecStream == Init /\ [][NextStream]_vars

(* SpecPair: two requests in flight, text and finish parts *)

PairParts ==
  { Part("text-delta", "a", Undefined, FALSE),
    Part("finish", Undefined, Undefined, FALSE) }

NextPair ==
  \/ \E r \in Reqs : FwdReceive(r)
  \/ \E r \in Reqs : FwdCallThrows(r)
  \/ \E r \in Reqs : FwdCallReturnsText(r)
  \/ \E r \in Reqs : FwdCallReturnsStream(r)
  \/ \E r \in Reqs : FwdStreamPart(r, PairParts)
  \/ \E r \in Reqs : FwdClientClose(r)
  \/ \E r \in Reqs : FwdStreamEnds(r)
  \/ \E r \in Reqs : FwdStreamThrows(r)
  \/ \E r \in Reqs : FwdRetire(r)

SpecPair == Init /\ [][NextPair]_vars

(* The client of request r disconnects in this step *)
Disconnects(r) == ~reqs[r].closed /\ reqs'[r].closed

(* Nothing of the requests other than r changes *)
OthersUntouched(r) ==
  \A q \in Reqs \ {r} : reqs'[q] = reqs[q] /\ obs'[q] = obs[q]

(* C15: in the step in which the client of a streaming request disconnects,
   and in every later step of that request until its handler has returned,
   the request writes no frame, its count of status updates does not move,
   the key store is unchanged, and the other request in flight keeps its
   state and its frames. *)
C15_ClientDisconnect ==
  [][\A r \in Reqs :
       /\ Disconnects(r) =>
            /\ obs'[r].frames = obs[r].frames
            /\ StoreUnchanged
            /\ OthersUntouched(r)
       /\ (reqs[r].closed /\ reqs'[r].pc # "idle") =>
            /\ obs'[r].frames = obs[r].frames
            /\ reqs'[r].marks = reqs[r].marks
            /\ reqs'[r] # reqs[r] => StoreUnchanged /\ OthersUntouched(r)]_vars

(* r1 was cut after its first content frame and its handler has returned
   without a finish frame; r2, in flight meanwhile, has streamed to the end *)
C15_Witness ==
  /\ reqs["r1"].pc = "done" /\ reqs["r1"].closed /\ reqs["r1"].marks = 0
  /\ Len(obs["r1"].frames) = 2
  /\ Len(obs["r1"].parts) = 2
  /\ reqs["r2"].pc = "done" /\ ~reqs["r2"].closed /\ reqs["r2"].marks = 1
  /\ Len(obs["r2"].frames) = 4
  /\ obs["r2"].frames[4] = Terminator

(* The non-empty text deltas among the parts of a stream *)
IsTextDelta(part) ==
  part.type = "text-delta" /\ ~Falsy(Coalesce(part.textDelta, ""))

TextDeltas(parts) == {i \in 1..Len(parts) : IsTextDelta(parts[i])}

(* C20 as claimed: the frames of a stream the client has not cut are the
   role frame and then one content frame for each non-empty text delta
   received so far; once the handler has returned they are followed by the
   finish frame (normal end) or the error frame (error in the stream) and
   then by the terminator, which is the last frame. *)
C20_FrameOrder ==
  \A r \in Reqs :
    (Len(obs[r].frames) > 0 /\ ~reqs[r].closed) =>
      LET f == obs[r].frames
          n == Cardinality(TextDeltas(obs[r].parts))
      IN /\ f[1] = RoleFrame
         /\ Len(f) >= n + 1
         /\ \A i \in 2..(n + 1) : f[i].kind = "content"
         /\ IF reqs[r].pc = "done"
            THEN /\ Len(f) = n + 3
                 /\ f[n + 2] = IF obs[r].where = "stream"
                               THEN ErrorFrame ELSE FinishFrame
                 /\ f[n + 3] = Terminator
            ELSE Len(f) = n + 1

----------------------------------------------------------------------------
(* SpecAsm: processStream() alone. call holds the parts result.fullStream
   has delivered since streamText() resolved and the chunks the generator
   has yielded for them. *)

AsmOpen ==
  /\ call.op = "none"
  /\ call' = [op |-> "processStream", parts |-> <<>>, chunks |-> <<>>]
  /\ UNCHANGED <<keys, alias, currentIndex, lastLoadTime, now, reqs, last,
                 rot, oblig, disk, obs>>

AsmPart ==
  \E part \in Parts :
    /\ call.op = "processStream"
    /\ Len(call.parts) < MaxEvents
    /\ call' = [call EXCEPT !.parts = Append(@, part),
                            !.chunks = @ \o processStream(part)]
    /\ UNCHANGED <<keys, alias, currentIndex, lastLoadTime, now, reqs, last,
                   rot, oblig, disk, obs>>

(* result.fullStream ends and the generator returns *)
AsmClose ==
  /\ call.op = "processStream"
  /\ call' = NoCall
  /\ UNCHANGED <<keys, alias, currentIndex, lastLoadTime, now, reqs, last,
                 rot, oblig, disk, obs>>

NextAsm == AsmOpen \/ AsmPart \/ AsmClose

SpecAsm == Init /\ [][NextAsm]_vars

(* The text an upstream delta carries, "" when it carries none *)
EventText(part) ==
  IF part.textDelta # Undefined /\ part.textDelta # "" THEN part.textDelta
  ELSE IF part.type = "reasoning" /\ part.text # Undefined THEN part.text
  ELSE ""

EventKind(part) == IF part.type = "reasoning" THEN "reasoning" ELSE "text"

IsDelta(part) == part.type \in {"reasoning", "text-delta"}

RECURSIVE Projection(_)
(* The deltas of an upstream sequence that carry text, as (kind, text) *)
Projection(parts) ==
  IF parts = <<>> THEN <<>>
  ELSE LET rest == Projection(Tail(parts))
           part == Head(parts)
       IN IF IsDelta(part) /\ EventText(part) # ""
          THEN <<[kind |-> EventKind(part), text |-> EventText(part)]>> \o rest
          ELSE rest

RECURSIVE Emitted(_)
(* The reasoning and text chunks of an output sequence, as (kind, text) *)
Emitted(chunks) ==
  IF chunks = <<>> THEN <<>>
  ELSE LET rest == Emitted(Tail(chunks))
           chunk == Head(chunks)
       IN IF chunk.type \in {"reasoning", "text"}
          THEN <<[kind |-> chunk.type, text |-> chunk.content]>> \o rest
          ELSE rest

(* C21: at every point of a stream the reasoning and text chunks yielded so
   far are the upstream reasoning and text deltas that carry text, with their
   kinds and texts, in upstream order; no such chunk has empty content. *)
C21_Projection ==
  call.op = "processStream" =>
    /\ Emitted(call.chunks) = Projection(call.parts)
    /\ \A i \in 1..Len(call.chunks) :
         call.chunks[i].type \in {"reasoning", "text"} =>
           call.chunks[i].content \notin {"", Undefined}

(* reasoning "a", an empty text delta, text "a": the empty one is dropped *)
C21_Witness ==
  /\ call.op = "processStream"
  /\ Len(call.parts) = 3
  /\ call.parts[1].type = "reasoning" /\ call.parts[1].textDelta = "a"
  /\ call.parts[2].type = "text-delta" /\ call.parts[2].textDelta = ""
  /\ call.parts[3].type = "text-delta" /\ call.parts[3].textDelta = "a"
  /\ Len(call.chunks) = 2
  /\ call.chunks[2].type = "text"

Finishes(parts) == {i \in 1..Len(parts) : parts[i].type = "finish"}

Dones(chunks) == {i \in 1..Len(chunks) : chunks[i].type = "done"}

(* C22 as claimed: the output holds exactly one done chunk when the upstream
   sequence holds a finish part and none when it holds none, and no chunk
   follows a done chunk. *)
C22_Original ==
  call.op = "processStream" =>
    /\ Cardinality(Dones(call.chunks)) =
         IF Finishes(call.parts) = {} THEN 0 ELSE 1
    /\ \A i \in Dones(call.chunks) : i = Len(call.chunks)

IsAnswered(part) ==
  part.type = "finish" \/ (IsDelta(part) /\ EventText(part) # "")

Answered(parts) == SelectSeq(parts, IsAnswered)

(* C22: the output holds one done chunk for each finish part of the
   upstream sequence, at the place of that part among the parts that are
   answered with a chunk, and none when the upstream holds no finish part;
   the done chunk is the last chunk whenever the finish part is the last
   part answered. *)
C22_DonePerFinish ==
  call.op = "processStream" =>
    LET answered == Answered(call.parts) IN
    /\ Len(call.chunks) = Len(answered)
    /\ \A i \in 1..Len(answered) :
         call.chunks[i].type = "done" <=> answered[i].type = "finish"
    /\ Cardinality(Dones(call.chunks)) = Cardinality(Finishes(call.parts))

(* a finish part that is not the last part: a text chunk follows the done
   chunk *)
C22_Witness ==
  /\ call.op = "processStream"
  /\ Len(call.parts) = 2
  /\ call.parts[1].type = "finish"
  /\ Len(call.chunks) = 2
  /\ call.chunks[1].type = "done"
  /\ call.chunks[2].type = "text"

----------------------------------------------------------------------------
(* Values of JavaScript as the functions of src/src/ai-provider.ts tell them
   apart: typeof (t) and, for a number, its value (n). An object of a usage
   report has the fields total and count. *)

Js(t, n) == [t |-> t, n |-> n]

JsUndefined == Js("undefined", 0)

JsNull == Js("null", 0)

JsString == Js("string", 0)

JsNumber(n) == Js("number", n)

JsObject(total, count) == [t |-> "object", total |-> total, count |-> count]

(* a ?? b *)
Nullish(v) == v.t \in {"undefined", "null"}

NullishCoalesce(a, b) == IF Nullish(a) THEN b ELSE a

extractTokenCount(value) ==
  IF value.t = "number" THEN value.n
  ELSE IF value.t = "object"
       THEN IF value.total.t = "number" THEN value.total.n
            ELSE IF value.count.t = "number" THEN value.count.n
            ELSE 0
       ELSE 0

Usage(promptTokens, completionTokens, totalTokens) ==
  [promptTokens |-> promptTokens, completionTokens |-> completionTokens,
   totalTokens |-> totalTokens]

(* The usage of the done chunk of a stream *)
doneUsage(rawUsage) ==
  LET promptTokens ==
        extractTokenCount(NullishCoalesce(rawUsage.promptTokens,
                                          rawUsage.inputTokens))
      completionTokens ==
        extractTokenCount(NullishCoalesce(rawUsage.completionTokens,
                                          rawUsage.outputTokens))
  IN Usage(promptTokens, completionTokens, promptTokens + completionTokens)

(* The usage of the result of a call that is not streamed *)
resultUsage(rawUsage) ==
  LET promptTokens ==
        extractTokenCount(NullishCoalesce(rawUsage.promptTokens,
                                          rawUsage.inputTokens))
      completionTokens ==
        extractTokenCount(NullishCoalesce(rawUsage.completionTokens,
                                          rawUsage.outputTokens))
      totalTokens ==
        IF extractTokenCount(rawUsage.totalTokens) # 0
        THEN extractTokenCount(rawUsage.totalTokens)
        ELSE promptTokens + completionTokens
  IN Usage(promptTokens, completionTokens, totalTokens)

(* Usage reports of the SDK: flat numbers under either pair of names, or
   objects with total or count *)
PromptReports ==
  { JsUndefined, JsNull, JsNumber(0), JsNumber(3), JsString,
    JsObject(JsNumber(3), JsNumber(1)), JsObject(JsUndefined, JsNumber(1)),
    JsObject(JsString, JsUndefined) }

InputReports == { JsUndefined, JsNumber(4), JsObject(JsNumber(4), JsUndefined) }

CompletionReports == { JsUndefined, JsNumber(2), JsObject(JsUndefined, JsNumber(2)) }

OutputReports == { JsUndefined, JsNumber(1) }

TotalReports == { JsUndefined, JsNumber(0), JsNumber(5), JsNumber(9),
                  JsObject(JsNumber(9), JsUndefined) }

RawUsages ==
  [promptTokens : PromptReports, inputTokens : InputReports,
   completionTokens : CompletionReports, outputTokens : OutputReports,
   totalTokens : TotalReports]

(* SpecUsage: the finish part of a stream, or the result of generateText(),
   reports a usage *)

UsageOfFinish ==
  /\ call.op = "none"
  /\ \E rawUsage \in RawUsages :
    /\ call' = [op |-> "finish", rawUsage |-> rawUsage,
                usage |-> doneUsage(rawUsage)]
    /\ UNCHANGED <<keys, alias, currentIndex, lastLoadTime, now, reqs, last,
                   rot, oblig, disk, obs>>

UsageOfResult ==
  /\ call.op = "none"
  /\ \E rawUsage \in RawUsages :
    /\ call' = [op |-> "generateText", rawUsage |-> rawUsage,
                usage |-> resultUsage(rawUsage)]
    /\ UNCHANGED <<keys, alias, currentIndex, lastLoadTime, now, reqs, last,
                   rot, oblig, disk, obs>>

(* The caller has the usage; the next report can come *)
UsageTaken ==
  /\ call.op \in {"finish", "generateText"}
  /\ call' = NoCall
  /\ UNCHANGED <<keys, alias, currentIndex, lastLoadTime, now, reqs, last,
                 rot, oblig, disk, obs>>

NextUsage == UsageOfFinish \/ UsageOfResult \/ UsageTaken

SpecUsage == Init /\ [][NextUsage]_vars

(* The count a reported value stands for: the number itself, else its total,
   else its count, else 0 *)
Reported(value) ==
  CASE value.t = "number" -> value.n
    [] value.t = "object" /\ value.total.t = "number" -> value.total.n
    [] value.t = "object" /\ value.total.t # "number"
         /\ value.count.t = "number" -> value.count.n
    [] OTHER -> 0

(* C23 as claimed: in the done chunk of a stream and in the result of a call
   that is not streamed, promptTokens and completionTokens are the counts
   the reported fields stand for, and totalTokens is the reported total when
   that is not 0 and promptTokens + completionTokens otherwise. *)
C23_UsageTotals ==
  call.op \in {"finish", "generateText"} =>
    LET raw == call.rawUsage
        p == Reported(NullishCoalesce(raw.promptTokens, raw.inputTokens))
        c == Reported(NullishCoalesce(raw.completionTokens, raw.outputTokens))
    IN /\ call.usage.promptTokens = p
       /\ call.usage.completionTokens = c
       /\ call.usage.totalTokens =
            IF Reported(raw.totalTokens) # 0
            THEN Reported(raw.totalTokens) ELSE p + c

----------------------------------------------------------------------------
(* Parameter translation: the provider of a model id and the provider
   options chatCompletion() builds from the reasoning controls of a request.
   A model id is a sequence of characters. *)

SLASH == "/"

MODEL_PROVIDER_MAP ==
  << <<<<"c", "l", "a", "u", "d", "e">>, "anthropic">>,
     <<<<"c", "l", "a", "u", "d", "e", "-", "3">>, "anthropic">>,
     <<<<"c", "l", "a", "u", "d", "e", "-", "4">>, "anthropic">>,
     <<<<"c", "l", "a", "u", "d", "e", "-", "s", "o", "n", "n", "e", "t">>, "anthropic">>,
     <<<<"c", "l", "a", "u", "d", "e", "-", "o", "p", "u", "s">>, "anthropic">>,
     <<<<"c", "l", "a", "u", "d", "e", "-", "h", "a", "i", "k", "u">>, "anthropic">>,
     <<<<"g", "p", "t">>, "openai">>,
     <<<<"g", "p", "t", "-", "4">>, "openai">>,
     <<<<"g", "p", "t", "-", "3", ".", "5">>, "openai">>,
     <<<<"o", "1">>, "openai">>,
     <<<<"o", "3">>, "openai">>,
     <<<<"c", "h", "a", "t", "g", "p", "t">>, "openai">>,
     <<<<"g", "e", "m", "i", "n", "i">>, "google">>,
     <<<<"g", "e", "m", "i", "n", "i", "-", "p", "r", "o">>, "google">>,
     <<<<"g", "e", "m", "i", "n", "i", "-", "2">>, "google">>,
     <<<<"g", "r", "o", "k">>, "xai">> >>

ProviderPrefixes == {<<"a", "n", "t", "h", "r", "o", "p", "i", "c">>, <<"o", "p", "e", "n", "a", "i">>, <<"g", "o", "o", "g", "l", "e">>, <<"x", "a", "i">>}

startsWith(m, sub) == Len(m) >= Len(sub) /\ SubSeq(m, 1, Len(sub)) = sub

(* The place of the first "/" of a model id, 0 when it has none *)
FirstSlash(m) ==
  IF \E i \in 1..Len(m) : m[i] = SLASH
  THEN Min({i \in 1..Len(m) : m[i] = SLASH})
  ELSE 0

(* m.split('/')[0] and m.split('/').slice(1).join('/') of an id with a "/" *)
BeforeSlash(m) == SubSeq(m, 1, FirstSlash(m) - 1)

AfterSlash(m) == SubSeq(m, FirstSlash(m) + 1, Len(m))

ProviderName(prefix) ==
  CASE prefix = <<"a", "n", "t", "h", "r", "o", "p", "i", "c">> -> "anthropic"
    [] prefix = <<"o", "p", "e", "n", "a", "i">> -> "openai"
    [] prefix = <<"g", "o", "o", "g", "l", "e">> -> "google"
    [] prefix = <<"x", "a", "i">> -> "xai"
    [] OTHER -> "unknown"

ProviderChars(provider) ==
  CASE provider = "anthropic" -> <<"a", "n", "t", "h", "r", "o", "p", "i", "c">>
    [] provider = "google" -> <<"g", "o", "o", "g", "l", "e">>
    [] provider = "xai" -> <<"x", "a", "i">>
    [] OTHER -> <<"o", "p", "e", "n", "a", "i">>

detectProvider(model) ==
  LET modelLower == toLowerCase(model)
      hits == {i \in 1..Len(MODEL_PROVIDER_MAP) :
                 includes(modelLower, MODEL_PROVIDER_MAP[i][1])}
  IN IF FirstSlash(modelLower) > 0
     THEN ProviderName(BeforeSlash(modelLower))
     ELSE IF hits # {} THEN MODEL_PROVIDER_MAP[Min(hits)][2]
     ELSE "openai"

ensureGatewayModelIdAlways(model) ==
  ProviderChars(detectProvider(model)) \o <<SLASH>> \o model

ensureGatewayModelId(model) ==
  IF FirstSlash(model) > 0 THEN model
  ELSE ProviderChars(detectProvider(model)) \o <<SLASH>> \o model

Models ==
  { <<"a", "n", "t", "h", "r", "o", "p", "i", "c", "/",
       "c", "l", "a", "u", "d", "e", "-", "4">>,
    <<"c", "l", "a", "u", "d", "e", "-", "3">>,
    <<"o", "p", "e", "n", "a", "i", "/", "o", "1", "-", "m", "i", "n", "i">>,
    <<"O", "p", "e", "n", "A", "I", "/", "O", "3">>,
    <<"o", "p", "e", "n", "a", "i", "/", "g", "p", "t", "-", "5">>,
    <<"m", "y", "-", "g", "p", "t", "-", "5">>,
    <<"o", "p", "e", "n", "a", "i", "/", "p", "r", "o", "1">>,
    <<"g", "p", "t", "-", "4", "o">>,
    <<"g", "o", "o", "g", "l", "e", "/", "g", "e", "m", "i", "n", "i", "-", "2">>,
    <<"x", "a", "i", "/", "g", "r", "o", "k", "-", "3">>,
    <<"m", "i", "s", "t", "r", "a", "l", "/", "l", "a", "r", "g", "e">>,
    <<"l", "l", "a", "m", "a">> }

(* A number of JavaScript that is not finite, as JSON.parse gives for a
   literal like 1e999 *)
JsInfinity == Js("Infinity", 0)

typeof(v) == IF v.t = "Infinity" THEN "number" ELSE v.t

(* Whether a value counts as true in a condition; a string value stands
   for a non-empty text that is not a numeral *)
Truthy(v) ==
  CASE v.t = "number" -> v.n # 0
    [] v.t \in {"undefined", "null"} -> FALSE
    [] OTHER -> TRUE

(* v || d *)
OrDefault(v, d) == IF Truthy(v) THEN v ELSE d

(* The reasoning controls of a ChatCompletionRequest; reasoning_effort,
   thinking.type and enable_thinking are given as texts, Undefined when the
   field is absent *)
Thinking(type, budget_tokens) ==
  [t |-> "object", type |-> type, budget_tokens |-> budget_tokens]

Efforts == {Undefined, "", "low", "medium", "high", "max"}

Thinkings ==
  { JsUndefined,
    Thinking("enabled", JsNumber(5000)),
    Thinking("enabled", JsNumber(0)),
    Thinking("enabled", JsUndefined),
    Thinking("disabled", JsNumber(5000)),
    Thinking(Undefined, JsNumber(5000)) }

EnableThinkings == {Undefined, "true", "false"}

ThinkingBudgets == {JsUndefined, JsNumber(0), JsNumber(2000)}

MaxTokens ==
  { JsUndefined, JsNull, JsNumber(0), JsNumber(1000),
    JsNumber(10000), JsNumber(30000), JsInfinity }

budgetMap(effort) ==
  CASE effort = "low" -> 4000
    [] effort = "medium" -> 8000
    [] effort = "high" -> 16000
    [] OTHER -> 8000

calculateThinkingBudgetNoClamp(effort, maxTokens) == budgetMap(effort)

(* baseBudget > maxTokens * 0.8 and Math.floor(maxTokens * 0.8), in whole
   numbers *)
calculateThinkingBudget(effort, maxTokens) ==
  LET baseBudget == budgetMap(effort) IN
  IF Truthy(maxTokens) /\ maxTokens.t = "number"
     /\ 5 * baseBudget > 4 * maxTokens.n
  THEN (4 * maxTokens.n) \div 5
  ELSE baseBudget

NoOptions == [provider |-> "none"]

ThinkingOptions(type, budgetTokens) ==
  [provider |-> "anthropic",
   thinking |-> [type |-> type, budgetTokens |-> budgetTokens]]

buildAnthropicOptionsRecompute(request) ==
  IF request.reasoning_effort \notin {Undefined, ""}
  THEN ThinkingOptions("enabled",
         JsNumber(calculateThinkingBudget(request.reasoning_effort,
                                          request.max_tokens)))
  ELSE IF request.thinking.t = "object"
  THEN ThinkingOptions("enabled", JsNumber(8000))
  ELSE IF request.enable_thinking = "true"
  THEN ThinkingOptions("enabled", OrDefault(request.thinking_budget, JsNumber(8000)))
  ELSE NoOptions

buildAnthropicOptions(request) ==
  IF request.reasoning_effort \notin {Undefined, ""}
  THEN ThinkingOptions("enabled",
         JsNumber(calculateThinkingBudget(request.reasoning_effort,
                                          request.max_tokens)))
  ELSE IF request.thinking.t = "object"
  THEN ThinkingOptions(
         IF request.thinking.type \in {Undefined, ""}
         THEN "enabled" ELSE request.thinking.type,
         OrDefault(request.thinking.budget_tokens, JsNumber(8000)))
  ELSE IF request.enable_thinking = "true"
  THEN ThinkingOptions("enabled", OrDefault(request.thinking_budget, JsNumber(8000)))
  ELSE NoOptions

EffortOptions(provider, reasoningEffort) ==
  [provider |-> provider, reasoningEffort |-> reasoningEffort]

isReasoningModel(modelId) ==
  LET bareModelId == IF FirstSlash(modelId) > 0 THEN AfterSlash(modelId)
                     ELSE modelId
      modelLower == toLowerCase(bareModelId)
  IN \/ startsWith(modelLower, <<"o", "1">>)
     \/ startsWith(modelLower, <<"o", "3">>)
     \/ includes(modelLower, <<"g", "p", "t", "-", "5">>)

buildOpenAIOptionsAnyModel(request, modelId) ==
  IF request.reasoning_effort \notin {Undefined, ""}
  THEN EffortOptions("openai", request.reasoning_effort)
  ELSE NoOptions

buildOpenAIOptions(request, modelId) ==
  IF isReasoningModel(modelId) /\ request.reasoning_effort \notin {Undefined, ""}
  THEN EffortOptions("openai", request.reasoning_effort)
  ELSE NoOptions

ThinkingConfig(thinkingBudget, includeThoughts) ==
  [provider |-> "google",
   thinkingConfig |-> [thinkingBudget |-> thinkingBudget,
                       includeThoughts |-> includeThoughts]]

buildGoogleOptionsHidden(request) ==
  IF request.reasoning_effort \notin {Undefined, ""}
  THEN ThinkingConfig(
         JsNumber(calculateThinkingBudget(request.reasoning_effort,
                                          request.max_tokens)), FALSE)
  ELSE NoOptions

buildGoogleOptions(request) ==
  IF request.reasoning_effort \notin {Undefined, ""}
  THEN ThinkingConfig(
         JsNumber(calculateThinkingBudget(request.reasoning_effort,
                                          request.max_tokens)), TRUE)
  ELSE IF request.thinking.t = "object" /\ request.thinking.type = "enabled"
  THEN ThinkingConfig(OrDefault(request.thinking.budget_tokens, JsNumber(8000)),
                      TRUE)
  ELSE IF request.enable_thinking = "true"
  THEN ThinkingConfig(OrDefault(request.thinking_budget, JsNumber(8000)), TRUE)
  ELSE NoOptions

buildXAIOptionsPass(request) ==
  IF request.reasoning_effort \notin {Undefined, ""}
  THEN EffortOptions("xai", request.reasoning_effort)
  ELSE NoOptions

buildXAIOptionsAlways(request) ==
  EffortOptions("xai", IF request.reasoning_effort = "low" THEN "low" ELSE "high")

buildXAIOptions(request) ==
  IF request.reasoning_effort \notin {Undefined, ""}
  THEN EffortOptions("xai",
         IF request.reasoning_effort = "low" THEN "low" ELSE "high")
  ELSE NoOptions

(* The switch of chatCompletion() on the provider of the normalized id *)
providerOptions(request) ==
  LET modelId == ensureGatewayModelId(request.model)
      providerType == detectProvider(modelId)
  IN CASE providerType = "anthropic" -> buildAnthropicOptions(request)
       [] providerType = "openai" -> buildOpenAIOptions(request, modelId)
       [] providerType = "google" -> buildGoogleOptions(request)
       [] providerType = "xai" -> buildXAIOptions(request)
       [] OTHER -> NoOptions

ReasoningRequests ==
  [model : Models, reasoning_effort : Efforts, thinking : Thinkings,
   enable_thinking : EnableThinkings, thinking_budget : ThinkingBudgets,
   max_tokens : MaxTokens]

(* SpecTranslate: chatCompletion() down to its providerOptions, for one
   request after another *)

Translate ==
  /\ call.op = "none"
  /\ \E request \in ReasoningRequests :
    /\ call' = [op |-> "translate", request |-> request,
                modelId |-> ensureGatewayModelId(request.model),
                providerType |->
                  detectProvider(ensureGatewayModelId(request.model)),
                options |-> providerOptions(request)]
    /\ UNCHANGED <<keys, alias, currentIndex, lastLoadTime, now, reqs, last,
                   rot, oblig, disk, obs>>

TranslateReturns ==
  /\ call.op = "translate"
  /\ call' = NoCall
  /\ UNCHANGED <<keys, alias, currentIndex, lastLoadTime, now, reqs, last,
                 rot, oblig, disk, obs>>

NextTranslate == Translate \/ TranslateReturns

SpecTranslate == Init /\ [][NextTranslate]_vars

(* The request carries no reasoning control *)
NoControls(request) ==
  /\ request.reasoning_effort = Undefined
  /\ request.thinking.t = "undefined"
  /\ request.enable_thinking = Undefined

(* C24: a request with no reasoningEffort, no thinking object and
   enableThinking not set gets no provider options, whatever its model id
   and the provider detected for it. *)
C24_NoControlsNoOptions ==
  (call.op = "translate" /\ NoControls(call.request)) =>
    call.options = NoOptions

C24_Witness ==
  /\ call.op = "translate"
  /\ NoControls(call.request)
  /\ call.providerType = "xai"
  /\ call.request.max_tokens = JsNumber(1000)
  /\ call.request.thinking_budget = JsNumber(2000)
  /\ call.options = NoOptions

TableEfforts == {"low", "medium", "high"}

Table(effort) ==
  CASE effort = "low" -> 4000 [] effort = "medium" -> 8000
    [] effort = "high" -> 16000

(* The thinking budget of the options of a call, for the two providers
   whose options carry one *)
BudgetOf(options) ==
  IF options.provider = "anthropic" THEN options.thinking.budgetTokens
  ELSE options.thinkingConfig.thinkingBudget

(* The call derives a budget from a reasoningEffort of the table *)
DerivesBudget ==
  /\ call.op = "translate"
  /\ call.providerType \in {"anthropic", "google"}
  /\ call.request.reasoning_effort \in TableEfforts

(* C25 as claimed: the budget for reasoningEffort e is table[e] when
   maxTokens is absent and min(table[e], floor(0.8 * maxTokens)) when
   maxTokens is a number, so that it never exceeds 80% of maxTokens. *)
C25_Original ==
  DerivesBudget =>
    LET e == call.request.reasoning_effort
        m == call.request.max_tokens
        budget == BudgetOf(call.options)
    IN /\ budget.t = "number"
       /\ m.t \in {"undefined", "null", "Infinity"} => budget.n = Table(e)
       /\ m.t = "number" =>
            /\ budget.n = Min({Table(e), (4 * m.n) \div 5})
            /\ 5 * budget.n <= 4 * m.n

(* C25: the budget for reasoningEffort e is table[e] when maxTokens is
   absent, null or 0, and min(table[e], floor(0.8 * maxTokens)) when
   maxTokens is a number other than 0; so it never exceeds 80% of a maxTokens
   other than 0. *)
C25_BudgetDerivation ==
  DerivesBudget =>
    LET e == call.request.reasoning_effort
        m == call.request.max_tokens
        budget == BudgetOf(call.options)
    IN /\ budget.t = "number"
       /\ (m.t \in {"undefined", "null", "Infinity"}
             \/ (m.t = "number" /\ m.n = 0)) => budget.n = Table(e)
       /\ (m.t = "number" /\ m.n # 0) =>
            /\ budget.n = Min({Table(e), (4 * m.n) \div 5})
            /\ 5 * budget.n <= 4 * m.n

(* high with maxTokens 10000: floor(10000 * 0.8) = 8000 *)
C25_Witness ==
  /\ DerivesBudget
  /\ call.request.reasoning_effort = "high"
  /\ call.request.max_tokens = JsNumber(10000)
  /\ BudgetOf(call.options) = JsNumber(8000)

(* The budget C25 gives for an effort of the table *)
EffectiveBudget(e, m) ==
  IF m.t = "number" /\ m.n # 0
  THEN Min({Table(e), (4 * m.n) \div 5})
  ELSE Table(e)

Anthropic == call.op = "translate" /\ call.providerType = "anthropic"

(* The request gives the raw thinking object and no reasoningEffort *)
RawThinking(request) ==
  request.reasoning_effort = Undefined /\ request.thinking.t = "object"

(* C26 as claimed: for anthropic, a reasoningEffort gives thinking with type
   "enabled" and the effective budget; a raw thinking object without
   reasoningEffort is emitted with the type and the budgetTokens of the
   request, whatever the budgetTokens (0 and absent included), an absent
   type becoming "enabled". *)
C26_Original ==
  Anthropic =>
    LET request == call.request IN
    /\ request.reasoning_effort \in TableEfforts =>
         call.options =
           ThinkingOptions("enabled",
             JsNumber(EffectiveBudget(request.reasoning_effort,
                                      request.max_tokens)))
    /\ RawThinking(request) =>
         /\ call.options.provider = "anthropic"
         /\ call.options.thinking.type =
              IF request.thinking.type = Undefined
              THEN "enabled" ELSE request.thinking.type
         /\ call.options.thinking.budgetTokens = request.thinking.budget_tokens

(* C26: for anthropic, a reasoningEffort gives thinking with type "enabled"
   and the effective budget; a raw thinking object without reasoningEffort
   is emitted with the type of the request ("enabled" when absent) and with
   its budgetTokens when that is a number other than 0, and with
   budgetTokens 8000 when it is absent or 0. *)
C26_AnthropicMapping ==
  Anthropic =>
    LET request == call.request IN
    /\ request.reasoning_effort \in TableEfforts =>
         call.options =
           ThinkingOptions("enabled",
             JsNumber(EffectiveBudget(request.reasoning_effort,
                                      request.max_tokens)))
    /\ RawThinking(request) =>
         /\ call.options.provider = "anthropic"
         /\ call.options.thinking.type =
              IF request.thinking.type = Undefined
              THEN "enabled" ELSE request.thinking.type
         /\ call.options.thinking.budgetTokens =
              IF request.thinking.budget_tokens.t = "number"
                 /\ request.thinking.budget_tokens.n # 0
              THEN request.thinking.budget_tokens
              ELSE JsNumber(8000)

(* a raw thinking object of type "disabled" with 5000 tokens passes as is *)
C26_Witness ==
  /\ Anthropic
  /\ RawThinking(call.request)
  /\ call.request.thinking = Thinking("disabled", JsNumber(5000))
  /\ call.options = ThinkingOptions("disabled", JsNumber(5000))

OpenAI == call.op = "translate" /\ call.providerType = "openai"

(* The model id without its provider prefix, in lower case *)
BareLower(modelId) == toLowerCase(AfterSlash(modelId))

IndicatesReasoning(bare) ==
  \/ Len(bare) >= 2 /\ SubSeq(bare, 1, 2) \in {<<"o", "1">>, <<"o", "3">>}
  \/ \E i \in 1..(Len(bare) - 4) :
       SubSeq(bare, i, i + 4) = <<"g", "p", "t", "-", "5">>

(* C27: for openai the options are {reasoningEffort: e} exactly when a
   reasoningEffort e is given and the bare model id starts with o1 or o3 or
   holds gpt-5; in every other case there are no options, whatever thinking
   object or enableThinking the request carries. *)
C27_OpenAIMapping ==
  OpenAI =>
    LET request == call.request
        e == request.reasoning_effort
    IN IF e \notin {Undefined, ""} /\ IndicatesReasoning(BareLower(call.modelId))
       THEN call.options = EffortOptions("openai", e)
       ELSE call.options = NoOptions

(* my-gpt-5, a bare id that holds gpt-5, with effort medium *)
C27_Witness ==
  /\ OpenAI
  /\ call.request.model = <<"m", "y", "-", "g", "p", "t", "-", "5">>
  /\ call.request.reasoning_effort = "medium"
  /\ call.request.thinking = Thinking("enabled", JsNumber(5000))
  /\ call.options = EffortOptions("openai", "medium")

Google == call.op = "translate" /\ call.providerType = "google"

(* v when it is a number other than 0, else 8000 *)
Or8000(v) == IF v.t = "number" /\ v.n # 0 THEN v ELSE JsNumber(8000)

(* C28 as claimed: for google, a request with a reasoningEffort, with a
   thinking object or with enableThinking set gets thinkingConfig with
   includeThoughts true and the budget of the first of these three shapes
   that is present. *)
C28_Original ==
  Google =>
    LET request == call.request IN
    /\ request.reasoning_effort \in TableEfforts =>
         call.options =
           ThinkingConfig(JsNumber(EffectiveBudget(request.reasoning_effort,
                                                   request.max_tokens)), TRUE)
    /\ RawThinking(request) =>
         call.options =
           ThinkingConfig(Or8000(request.thinking.budget_tokens), TRUE)
    /\ (request.reasoning_effort = Undefined
          /\ request.thinking.t = "undefined"
          /\ request.enable_thinking = "true") =>
         call.options = ThinkingConfig(Or8000(request.thinking_budget), TRUE)

(* The thinking object of the request asks for thinking *)
EnabledThinking(request) ==
  request.thinking.t = "object" /\ request.thinking.type = "enabled"

(* C28: for google, a reasoningEffort gives thinkingConfig with
   includeThoughts true and the effective budget; without reasoningEffort a
   thinking object counts only when its type is "enabled" and then gives its
   budgetTokens (8000 when absent or 0); without either, enableThinking set
   gives thinkingBudget (8000 when absent or 0); a request with none of the
   three, be it with a thinking object of another or no type, gets no
   options. *)
C28_GoogleMapping ==
  Google =>
    LET request == call.request IN
    /\ request.reasoning_effort \in TableEfforts =>
         call.options =
           ThinkingConfig(JsNumber(EffectiveBudget(request.reasoning_effort,
                                                   request.max_tokens)), TRUE)
    /\ request.reasoning_effort \in {Undefined, ""} =>
         call.options =
           IF EnabledThinking(request)
           THEN ThinkingConfig(Or8000(request.thinking.budget_tokens), TRUE)
           ELSE IF request.enable_thinking = "true"
           THEN ThinkingConfig(Or8000(request.thinking_budget), TRUE)
           ELSE NoOptions

(* a thinking object of type "disabled" and nothing else: no options *)
C28_Witness ==
  /\ Google
  /\ call.request.reasoning_effort = Undefined
  /\ call.request.thinking = Thinking("disabled", JsNumber(5000))
  /\ call.request.enable_thinking = Undefined
  /\ call.options = NoOptions

XAI == call.op = "translate" /\ call.providerType = "xai"

(* C29: for xai a reasoningEffort low gives {reasoningEffort: "low"} and a
   reasoningEffort medium or high gives {reasoningEffort: "high"}; whatever
   the request, the options of xai are one of these two or none. *)
C29_XAIMapping ==
  XAI =>
    /\ call.request.reasoning_effort = "low" =>
         call.options = EffortOptions("xai", "low")
    /\ call.request.reasoning_effort \in {"medium", "high"} =>
         call.options = EffortOptions("xai", "high")
    /\ call.options \in
         {NoOptions, EffortOptions("xai", "low"), EffortOptions("xai", "high")}

(* medium becomes high *)
C29_Witness ==
  /\ XAI
  /\ call.request.reasoning_effort = "medium"
  /\ call.options = EffortOptions("xai", "high")

----------------------------------------------------------------------------
(* The generation controls of a request and the params chatCompletion()
   hands to streamText() or generateText() *)

(* No such key in params *)
Omitted == Js("omitted", 0)

(* Values a JSON body can give a control; a number stands for itself *)
ControlValues ==
  { JsUndefined, JsNull, JsString, JsNumber(0), JsNumber(1), JsInfinity }

ControlRequests ==
  [max_tokens : ControlValues, temperature : ControlValues,
   top_p : ControlValues]

paramTruthy(value) == IF Truthy(value) THEN value ELSE Omitted

(* if (typeof value === 'number') params.x = value *)
param(value) == IF typeof(value) = "number" THEN value ELSE Omitted

params(request) ==
  [maxTokens |-> param(request.max_tokens),
   temperature |-> param(request.temperature),
   topP |-> param(request.top_p)]

(* SpecParams: chatCompletion() down to its params, for one request after
   another *)

BuildParams ==
  /\ call.op = "none"
  /\ \E request \in ControlRequests :
       call' = [op |-> "params", request |-> request,
                params |-> params(request)]
  /\ UNCHANGED <<keys, alias, currentIndex, lastLoadTime, now, reqs, last,
                 rot, oblig, disk, obs>>

ParamsSent ==
  /\ call.op = "params"
  /\ call' = NoCall
  /\ UNCHANGED <<keys, alias, currentIndex, lastLoadTime, now, reqs, last,
                 rot, oblig, disk, obs>>

NextParams == BuildParams \/ ParamsSent

SpecParams == Init /\ [][NextParams]_vars

Finite(value) == value.t = "number"

(* The three controls of a request, each with the param it became *)
Controls ==
  { <<call.request.max_tokens, call.params.maxTokens>>,
    <<call.request.temperature, call.params.temperature>>,
    <<call.request.top_p, call.params.topP>> }

(* C30 as claimed: each of temperature, topP and maxTokens is in the params
   with its value when it is a finite number and is not in the params when
   it is anything else. *)
C30_Original ==
  call.op = "params" =>
    \A c \in Controls :
      c[2] = IF Finite(c[1]) THEN c[1] ELSE Omitted

(* C30: each of temperature, topP and maxTokens is in the params with its
   value when it is of type number, an infinite number included, and is not
   in the params when it is absent, null or of another type. *)
C30_GenerationControls ==
  call.op = "params" =>
    \A c \in Controls :
      c[2] = IF Finite(c[1]) \/ c[1] = JsInfinity THEN c[1] ELSE Omitted

(* temperature 0 passes, a null topP is left out, an infinite maxTokens
   passes *)
C30_Witness ==
  /\ call.op = "params"
  /\ call.request.temperature = JsNumber(0)
  /\ call.params.temperature = JsNumber(0)
  /\ call.request.top_p = JsNull
  /\ call.params.topP = Omitted
  /\ call.request.max_tokens = JsInfinity
  /\ call.params.maxTokens = JsInfinity

----------------------------------------------------------------------------
(* SpecModelId: ensureGatewayModelId() applied to a model id and then to
   its own result, for one model id after another *)

IdChars == {"/", "o", "1", "g", "X"}

ModelIds == Models \cup UNION {[1..n -> IdChars] : n \in 0..MaxIdLen}

EnsureId ==
  /\ call.op = "none"
  /\ \E model \in ModelIds :
       call' = [op |-> "ensure", model |-> model,
                ids |-> <<ensureGatewayModelId(model)>>]
  /\ UNCHANGED <<keys, alias, currentIndex, lastLoadTime, now, reqs, last,
                 rot, oblig, disk, obs>>

EnsureAgain ==
  /\ call.op = "ensure"
  /\ Len(call.ids) = 1
  /\ call' = [call EXCEPT
                !.ids = Append(@, ensureGatewayModelId(call.ids[1]))]
  /\ UNCHANGED <<keys, alias, currentIndex, lastLoadTime, now, reqs, last,
                 rot, oblig, disk, obs>>

EnsureReturns ==
  /\ call.op = "ensure"
  /\ call' = NoCall
  /\ UNCHANGED <<keys, alias, currentIndex, lastLoadTime, now, reqs, last,
                 rot, oblig, disk, obs>>

NextModelId == EnsureId \/ EnsureAgain \/ EnsureReturns

SpecModelId == Init /\ [][NextModelId]_vars

HasSlash(m) == \E i \in 1..Len(m) : m[i] = SLASH

(* C31: ensureGatewayModelId returns a model id that contains "/" as it
   is, every id it returns contains "/", and applied to its own result it
   returns that result. *)
C31_ModelId ==
  call.op = "ensure" =>
    /\ HasSlash(call.model) => call.ids[1] = call.model
    /\ \A i \in 1..Len(call.ids) : HasSlash(call.ids[i])
    /\ Len(call.ids) = 2 => call.ids[2] = call.ids[1]

(* a bare id got its provider in front, and the second application left
   the result as it was *)
C31_Witness ==
  /\ call.op = "ensure"
  /\ call.model = <<"c", "l", "a", "u", "d", "e", "-", "3">>
  /\ Len(call.ids) = 2
  /\ call.ids[1] = <<"a", "n", "t", "h", "r", "o", "p", "i", "c", "/",
                     "c", "l", "a", "u", "d", "e", "-", "3">>
  /\ call.ids[2] = call.ids[1]

----------------------------------------------------------------------------
(* Forced selection, under Spec *)

(* The step is a getNextKey() that found a non-empty store with no usable
   record after its reload check: a selection that finds a usable record
   leaves that record usable *)
ForcedSelection ==
  IsOp("getNextKey") /\ Len(keys') > 0 /\ NoneUsable(keys', now)

(* C32 as claimed: a forced selection returns the key of the record at the
   cursor position, and leaves the cursor at 1 when the store has more than
   one record. *)
C32_Original ==
  [][ForcedSelection =>
       /\ currentIndex < Len(keys') =>
            last'.key = keys'[currentIndex + 1].key
       /\ Len(keys') > 1 => currentIndex' = 1]_vars

(* C32: a forced selection returns the key of the first record of the
   store, wherever the cursor stands, and leaves the cursor at 1 when the
   store has more than one record and at 0 when it has one. *)
C32_ForcedTarget ==
  [][ForcedSelection =>
       /\ last'.key = keys'[1].key
       /\ currentIndex' = IF Len(keys') > 1 THEN 1 ELSE 0]_vars

(* a forced selection on a store of two secrets has returned the first and
   left the cursor on the second *)
C32_Witness ==
  /\ last.op = "getNextKey"
  /\ Len(keys) = 2
  /\ keys[1].key # keys[2].key
  /\ NoneUsable(keys, now)
  /\ last.key = keys[1].key
  /\ currentIndex = 1

----------------------------------------------------------------------------
(* Precedence of the reasoning shapes, under SpecTranslate *)

EffortPresent(request) == request.reasoning_effort \notin {Undefined, ""}

ThinkingPresent(request) == request.thinking.t = "object"

(* The request without the shapes that come after its first present one *)
HighestShapeOnly(request) ==
  IF EffortPresent(request)
  THEN [request EXCEPT !.thinking = JsUndefined,
                       !.enable_thinking = Undefined,
                       !.thinking_budget = JsUndefined]
  ELSE IF ThinkingPresent(request)
  THEN [request EXCEPT !.enable_thinking = Undefined,
                       !.thinking_budget = JsUndefined]
  ELSE request

(* C33: the provider options of a request are those of the same request
   with only its highest-precedence reasoning shape left (reasoningEffort,
   else the thinking object, else enableThinking with thinkingBudget): a
   shape of lower precedence never changes the result, for every provider. *)
C33_Precedence ==
  call.op = "translate" =>
    call.options = providerOptions(HighestShapeOnly(call.request))

----------------------------------------------------------------------------
(* Cooldown with two requests in flight, under SpecPair. The clock stands
   still in SpecPair, so a cooldown that has started has not elapsed, and
   there is no administrative reset; the key list changes at most once,
   from empty to the first file loaded. *)

(* Request f has ended in the outer catch with a rate/quota error, which
   applied markKeyFailed to key, and its answer is not retired yet *)
PutInCooldown(f, key) ==
  /\ reqs[f].pc = "done"
  /\ reqs[f].status = 500
  /\ reqs[f].marks = 1
  /\ reqs[f].apiKey = key

(* C34: after the rate/quota failure of a request has put key k in
   cooldown, a request that selects while a record with another key is
   usable is not handed k, whatever the other request in flight did in
   between, a request that was handed k before the failure and succeeded
   after it included. *)
C34_ConcurrentCooldown ==
  [][\A p \in Reqs : \A f \in Reqs \ {p} :
       (/\ Arrives(p)
        /\ reqs'[p].pc = "calling"
        /\ PutInCooldown(f, reqs'[p].apiKey))
         => ~OtherUsable(keys', reqs'[p].apiKey, now)]_vars

----------------------------------------------------------------------------
(* Duplicate lines, under SpecRot *)

(* After a step that loaded a file the store has one slot per key line of
   the file, duplicates included, in file order *)
SlotPerLine == last.lines # <<>> => KeyList(keys) = last.lines

(* A complete run has returned every secret as many times as it has slots *)
HandedOncePerSlot ==
  (rot.n > 0 /\ Len(rot.picks) = rot.n) =>
    \A k \in Secrets :
      Cardinality({j \in 1..Len(rot.picks) : keys[rot.picks[j]].key = k})
        = Cardinality(SlotsOf(keys, k))

SameStatus(i, j) == Status(keys[i]) = Status(keys[j])

(* C35 as claimed: one slot per key line, duplicates included and in file
   order; a secret listed d times is handed out d times per full rotation;
   all slots of one secret show the same status. *)
C35_Original ==
  /\ SlotPerLine
  /\ HandedOncePerSlot
  /\ \A k \in Secrets : \A i, j \in SlotsOf(keys, k) : SameStatus(i, j)

(* C35: one slot per key line, duplicates included and in file order; a
   secret listed d times is handed out d times per full rotation; the
   slots of one secret show the same status right after a load, and slots
   that hold the same record always do. *)
C35_DuplicateSlots ==
  /\ SlotPerLine
  /\ HandedOncePerSlot
  /\ last.lines # <<>> =>
       \A k \in Secrets : \A i, j \in SlotsOf(keys, k) : SameStatus(i, j)
  /\ \A i, j \in 1..Len(keys) : alias[i] = alias[j] => keys[i] = keys[j]

(* a full rotation over a file that lists one secret twice has just handed
   that secret out twice *)
C35_Witness ==
  /\ last.op = "getNextKey"
  /\ rot.n = 2
  /\ Len(rot.picks) = 2
  /\ rot.picks[1] # rot.picks[2]
  /\ keys[1].key = keys[2].key

----------------------------------------------------------------------------
(* The balance check of src/src/billing-checker.ts: generateReport() sorts
   the results of a check into balance ranges and writes the classification
   files of the key directory. A balance is counted in cents. disk holds
   the classification files, call the latest generateReport(). *)

KeyCheckResult(key, status, balance) ==
  [key |-> key, status |-> status, balance |-> balance]

categoryKeys == <<"high", "medium_high", "medium", "low", "zero">>

(* balance >= catInfo.min && balance < catInfo.max *)
InCategory(balance, catKey) ==
  CASE catKey = "high" -> balance >= 300
    [] catKey = "medium_high" -> balance >= 200 /\ balance < 300
    [] catKey = "medium" -> balance >= 100 /\ balance < 200
    [] catKey = "low" -> balance >= 1 /\ balance < 100
    [] OTHER -> balance < 1

catFile(catKey) ==
  CASE catKey = "high" -> "keys_high.txt"
    [] catKey = "medium_high" -> "keys_medium_high.txt"
    [] catKey = "medium" -> "keys_medium.txt"
    [] catKey = "low" -> "keys_low.txt"
    [] OTHER -> "keys_zero.txt"

ClassificationFiles ==
  {catFile(categoryKeys[i]) : i \in 1..Len(categoryKeys)}
    \cup {"active_keys.txt"}

(* r goes behind the results whose balance is not below its own *)
InsertByBalance(sorted, r) ==
  LET n == Cardinality({i \in 1..Len(sorted) :
                          sorted[i].balance >= r.balance})
  IN SubSeq(sorted, 1, n) \o <<r>> \o SubSeq(sorted, n + 1, Len(sorted))

(* [...successful].sort((a, b) => b.balance - a.balance) *)
RECURSIVE successfulSorted(_)
successfulSorted(rs) ==
  IF rs = <<>> THEN <<>>
  ELSE InsertByBalance(successfulSorted(SubSeq(rs, 1, Len(rs) - 1)),
                       rs[Len(rs)])

IsSuccess(r) == r.status = "success"

(* categories[catKey].keys after the classification loop *)
CategoryKeys(results, catKey) ==
  LET sorted == successfulSorted(SelectSeq(results, IsSuccess))
      hits == {i \in 1..Len(sorted) :
                 \E c \in 1..Len(categoryKeys) :
                   /\ categoryKeys[c] = catKey
                   /\ InCategory(sorted[i].balance, catKey)
                   /\ \A d \in 1..(c - 1) :
                        ~InCategory(sorted[i].balance, categoryKeys[d])}
      F[i \in 0..Len(sorted)] ==
        IF i = 0 THEN <<>>
        ELSE IF i \in hits THEN Append(F[i - 1], sorted[i].key)
        ELSE F[i - 1]
  IN F[Len(sorted)]

activeKeys(results) ==
  CategoryKeys(results, "high") \o CategoryKeys(results, "medium_high")
    \o CategoryKeys(results, "medium") \o CategoryKeys(results, "low")

(* if (keys.length > 0) fs.writeFileSync(file, keys.join('\n')) *)
WrittenFile(old, keyList) == IF Len(keyList) > 0 THEN TextFile(keyList) ELSE old

(* The classification files after generateReport(results) *)
generateReport(files, results) ==
  IF Len(SelectSeq(results, IsSuccess)) > 0
  THEN [f \in ClassificationFiles |->
          IF f = "active_keys.txt"
          THEN WrittenFile(files[f], activeKeys(results))
          ELSE LET catKey ==
                     CHOOSE c \in {categoryKeys[i] : i \in 1..Len(categoryKeys)} :
                       catFile(c) = f
               IN WrittenFile(files[f], CategoryKeys(results, catKey))]
  ELSE files

(* The results of a check: the keys of the key file in file order, each
   with an error or a balance *)
Balances == {0, 1, 300}

CheckedKeys ==
  {ks \in UNION {[1..n -> Secrets] : n \in 1..MaxChecked} :
     \A i, j \in 1..Len(ks) : ks[i] = ks[j] => i = j}

Outcomes ==
  {[status |-> "error", balance |-> 0]}
    \cup {[status |-> "success", balance |-> b] : b \in Balances}

CheckResults ==
  UNION {{[i \in 1..Len(ks) |->
             KeyCheckResult(ks[i], os[i].status, os[i].balance)] :
            os \in [1..Len(ks) -> Outcomes]} : ks \in CheckedKeys}

NoFiles == [f \in ClassificationFiles |-> AbsentFile]

(* SpecBilling: one generateReport() after another on the same key
   directory, which holds no classification file at first *)

GenerateReport ==
  \E results \in CheckResults :
    /\ disk' = generateReport(IF disk = NoDisk THEN NoFiles ELSE disk, results)
    /\ call' = [op |-> "generateReport", results |-> results]
    /\ UNCHANGED <<keys, alias, currentIndex, lastLoadTime, now, reqs, last,
                   rot, oblig, obs>>

NextBilling == GenerateReport

SpecBilling == Init /\ [][NextBilling]_vars

(* The keys a classification file lists *)
Listed(f) ==
  IF disk[f].exists THEN {disk[f].lines[i] : i \in 1..Len(disk[f].lines)}
  ELSE {}

(* The keys the latest check found with a balance in the range of catKey *)
InRange(catKey) ==
  {call.results[i].key : i \in
     {j \in 1..Len(call.results) :
        /\ IsSuccess(call.results[j])
        /\ InCategory(call.results[j].balance, catKey)}}

(* C36: after a generateReport() each of the five range files lists
   exactly the successfully checked keys whose balance lies in its range,
   and active_keys.txt exactly those with a balance above zero; so every
   successful key is in exactly one range file, and a key whose balance has
   left a range is no longer in that range's file. *)
C36_ClassificationFiles ==
  call.op = "generateReport" =>
    /\ \A i \in 1..Len(categoryKeys) :
         Listed(catFile(categoryKeys[i])) = InRange(categoryKeys[i])
    /\ Listed("active_keys.txt") =
         InRange("high") \cup InRange("medium_high")
           \cup InRange("medium") \cup InRange("low")

----------------------------------------------------------------------------
(* The status of a record, under Spec *)

(* C37: in every state of the store and for every record, failCount is at
   least 0 and cooldownUntil is set exactly when failCount is above 0,
   whether the cooldown has ended or not. *)
C37_StatusInvariant ==
  \A j \in 1..Len(keys) :
    /\ keys[j].failCount >= 0
    /\ keys[j].cooldownUntil # NoDate <=> keys[j].failCount > 0

(* a reload has just carried a record with two failures and its cooldown
   over, next to a record without either *)
C37_Witness ==
  /\ last.op = "reload"
  /\ last.lines # <<>>
  /\ \E i, j \in 1..Len(keys) :
       /\ keys[i].failCount = 2
       /\ keys[i].cooldownUntil # NoDate
       /\ keys[j].failCount = 0
       /\ keys[j].cooldownUntil = NoDate

----------------------------------------------------------------------------
(* The indexes a selection reads, under SpecRot *)

(* The indexes the scan of getNextKey() can read on n records from cursor
   idx *)
ScanReads(idx, n) == {ScanIndex(idx, i, n) : i \in 0..(n - 1)}

(* C38: a getNextKey() on a store of N records, the reload it may make
   included, reads record indexes in [0, N) only, wherever the cursor
   stands, and returns the key of a record of the store; on an empty store
   it reads no record and returns null. *)
C38_InBounds ==
  [][IsOp("getNextKey") =>
       LET n == Len(keys') IN
       IF n = 0 THEN last'.key = None
       ELSE /\ ScanReads(currentIndex, n) \subseteq 0..(n - 1)
            /\ HasKey(keys', last'.key)
            /\ rot'.n > 0 =>
                 \A j \in 1..Len(rot'.picks) : rot'.picks[j] \in 1..n]_vars

(* a selection has just started from a cursor that a shrinking reload left
   at or beyond the end of the list, and returned the record it wrapped
   around to *)
C38_Witness ==
  /\ last.op = "getNextKey"
  /\ rot.n > 0
  /\ rot.start >= rot.n
  /\ Len(rot.picks) = 1
  /\ last.key = keys[rot.picks[1]].key

----------------------------------------------------------------------------
(* A load that takes no keys, under SpecLoad *)

(* The file system read has no candidate with a key line, or a read fails
   before the first candidate *)
LoadFails(fs) == Candidates(fs) = {} \/ ReadFails(fs)

(* C39: a reload() that finds no candidate file with a key line, or whose
   read throws, leaves the record list, every record's failCount and
   cooldownUntil, the cursor and the load time as they are; a getNextKey()
   whose load fails selects from the records it had; and no step empties a
   store that holds a record. *)
C39_FailedReload ==
  [][/\ (IsOp("reload") /\ LoadFails(disk')) =>
          UNCHANGED <<keys, alias, currentIndex, lastLoadTime>>
     /\ (IsOp("getNextKey") /\ disk' # NoDisk /\ LoadFails(disk')) =>
          /\ KeyList(keys') = KeyList(keys)
          /\ \A j \in 1..Len(keys) : Status(keys'[j]) = Status(keys[j])
          /\ lastLoadTime' = lastLoadTime
     /\ Len(keys) > 0 => Len(keys') > 0]_vars

(* a reload whose read threw has just left a store with a failed record
   and an advanced cursor as it was *)
C39_Witness ==
  /\ last.op = "reload"
  /\ last.lines = <<>>
  /\ disk # NoDisk
  /\ ReadFails(disk)
  /\ currentIndex > 0
  /\ \E j \in 1..Len(keys) : keys[j].failCount > 0

----------------------------------------------------------------------------
(* The slots of a key in cooldown, under SpecCool *)

(* Every slot that holds key k is in cooldown *)
AllSlotsCooling(k) == \A j \in SlotsOf(keys, k) : InCooldown(keys[j], now)

(* C40 as claimed: after markKeyFailed(k), and until the cooldown has ended
   or a markKeySuccess(k) or resetAll() has cancelled it, no slot that
   holds k is usable, also when k is on several lines of the key file and
   also after a reload. *)
C40_Original ==
  \A k \in Secrets : oblig[k].until > now => AllSlotsCooling(k)

(* C40: after markKeyFailed(k) on a key that held one slot, and as long as
   every load since has listed k, no slot that holds k is usable until the
   cooldown has ended or a markKeySuccess(k) or resetAll() has cancelled
   it, also when a later load lists k on several lines. *)
C40_CooldownCoversSlots ==
  \A k \in Secrets :
    (oblig[k].until > now /\ oblig[k].kept) => AllSlotsCooling(k)

(* a reload has just listed a cooling key on two lines, and both slots are
   in cooldown *)
C40_Witness ==
  /\ last.op = "reload"
  /\ \E k \in Secrets :
       /\ oblig[k].kept
       /\ oblig[k].until > now
       /\ Cardinality(SlotsOf(keys, k)) = 2
       /\ AllSlotsCooling(k)

====
